---- MODULE Spec2Model ----
(***************************************************************************)
(* A model of the enumeration core of pyphi: the index enumerators, the    *)
(* set-partition generators of partition.py and the intersection           *)
(* combinatorics of combinatorics.py.                                      *)
(*                                                                         *)
(* Python tuples and lists are TLA+ sequences.  Index tuples keep their    *)
(* 0-based values: the Python expression seq[i] is seq[i + 1] here.        *)
(* A generator is modelled by the list of everything it yields.            *)
(***************************************************************************)
EXTENDS Integers, Sequences, FiniteSets, TLC

\* Longest collection handed to partitions / k_partitions / bipartition.
MaxLen == 4
\* Largest N handed to the index enumerators.
MaxN == 4
\* Largest family of sets handed to the intersection combinatorics.
MaxSets == 3
\* Size of the universe the sets of a family are drawn from.
MaxElem == 2
\* Number of nodes a mechanism is drawn from.
MaxMechanism == 3
\* Number of nodes a purview is drawn from.
MaxPurview == 3
\* Most nodes of a system cut by the GENERAL scheme.
MaxCutNodes == 2
\* Most cores of the machine.
MaxCpu == 4

VARIABLES fn, args, result, raised

vars == <<fn, args, result, raised>>

----------------------------------------------------------------------------
(* Python built-ins used by the source *)

\* range(n): the list 0, 1, ..., n-1 (empty when n <= 0).
range(n) == [i \in 1..n |-> i - 1]

\* s[::-1]
RECURSIVE reversed(_)
reversed(s) == IF Len(s) = 0 THEN <<>> ELSE Append(reversed(Tail(s)), Head(s))

\* chain.from_iterable / repeated list concatenation.
RECURSIVE chain(_)
chain(ss) == IF Len(ss) = 0 THEN <<>> ELSE Head(ss) \o chain(Tail(ss))

\* tuple(seq[i] for i in idx): idx holds 0-based positions.
take(seq, idx) == [j \in 1..Len(idx) |-> seq[idx[j] + 1]]

\* itertools.islice(it, 1, None) and lst[1:]
drop1(s) == SubSeq(s, 2, Len(s))

\* lst[1:-1]
drop_ends(s) == SubSeq(s, 2, Len(s) - 1)

\* The elements of a sequence, as a set.
elems(s) == {s[i] : i \in 1..Len(s)}

\* itertools.product(base, repeat=n), in the order itertools yields it:
\* the rightmost position advances fastest.
RECURSIVE product_repeat(_, _)
product_repeat(base, n) ==
    IF n <= 0 THEN << <<>> >>
    ELSE LET shorter == product_repeat(base, n - 1)
         IN chain([p \in 1..Len(shorter) |->
                     [b \in 1..Len(base) |-> Append(shorter[p], base[b])]])

----------------------------------------------------------------------------
(* partition.py: index enumerators *)

\* (i >> n) & 1
bit_of(i, n) == (i \div (2 ^ n)) % 2

\* The inner loop of bipartition_indices: part[bit] collects, in ascending
\* order, the n of range(N) whose bit n of i equals bit.
part_of_bits(i, N, bit) == SelectSeq(range(N), LAMBDA n : bit_of(i, n) = bit)

\* bipartition_indices with the two parts appended in list order,
\* (part[0], part[1]).
bipartition_indices_swapped(N) ==
    IF N <= 0 THEN <<>>
    ELSE [i1 \in 1..(2 ^ (N - 1)) |->
            << part_of_bits(i1 - 1, N, 0), part_of_bits(i1 - 1, N, 1) >>]

\* bipartition_indices with i ranging over all N bits, range(2 ** N).
bipartition_indices_all_bits(N) ==
    IF N <= 0 THEN <<>>
    ELSE [i1 \in 1..(2 ^ N) |->
            << part_of_bits(i1 - 1, N, 1), part_of_bits(i1 - 1, N, 0) >>]

bipartition_indices(N) ==
    IF N <= 0 THEN <<>>
    ELSE [i1 \in 1..(2 ^ (N - 1)) |->
            << part_of_bits(i1 - 1, N, 1), part_of_bits(i1 - 1, N, 0) >>]

bipartition(seq, nontrivial) ==
    LET indices == bipartition_indices(Len(seq))
        bipartitions == [e \in 1..Len(indices) |->
                           << take(seq, indices[e][1]), take(seq, indices[e][2]) >>]
    IN IF nontrivial THEN drop1(bipartitions) ELSE bipartitions

directed_bipartition_indices(N) ==
    LET indices == bipartition_indices(N)
        backwards == reversed(indices)
    IN indices \o [e \in 1..Len(backwards) |-> reversed(backwards[e])]

\* directed_bipartition skipping only the first trivial entry, [1:].
directed_bipartition_keeps_last(seq, nontrivial) ==
    LET indices == directed_bipartition_indices(Len(seq))
        bipartitions == [e \in 1..Len(indices) |->
                           << take(seq, indices[e][1]), take(seq, indices[e][2]) >>]
    IN IF nontrivial THEN drop1(bipartitions) ELSE bipartitions

directed_bipartition(seq, nontrivial) ==
    LET indices == directed_bipartition_indices(Len(seq))
        bipartitions == [e \in 1..Len(indices) |->
                           << take(seq, indices[e][1]), take(seq, indices[e][2]) >>]
    IN IF nontrivial THEN drop_ends(bipartitions) ELSE bipartitions

\* The inner loop of directed_tripartition_indices: part[location] collects
\* the positions i of key whose entry is location.
part_of_key(key, location) ==
    SelectSeq(range(Len(key)), LAMBDA i : key[i + 1] = location)

\* directed_tripartition_indices filling its third part from bin 1 again.
directed_tripartition_indices_two_bins(N) ==
    IF N <= 0 THEN <<>>
    ELSE LET keys == product_repeat(<<0, 1, 2>>, N)
         IN [t \in 1..Len(keys) |->
               << part_of_key(keys[t], 0), part_of_key(keys[t], 1),
                  part_of_key(keys[t], 1) >>]

\* directed_tripartition_indices returning early only for N < 0.
directed_tripartition_indices_from_zero(N) ==
    IF N < 0 THEN <<>>
    ELSE LET keys == product_repeat(<<0, 1, 2>>, N)
         IN [t \in 1..Len(keys) |->
               << part_of_key(keys[t], 0), part_of_key(keys[t], 1),
                  part_of_key(keys[t], 2) >>]

directed_tripartition_indices(N) ==
    IF N <= 0 THEN <<>>
    ELSE LET keys == product_repeat(<<0, 1, 2>>, N)
         IN [t \in 1..Len(keys) |->
               << part_of_key(keys[t], 0), part_of_key(keys[t], 1),
                  part_of_key(keys[t], 2) >>]

directed_tripartition(seq) ==
    LET indices == directed_tripartition_indices(Len(seq))
    IN [e \in 1..Len(indices) |->
          << take(seq, indices[e][1]), take(seq, indices[e][2]),
             take(seq, indices[e][3]) >>]

\* The DIRECTED_BI system scheme, before its bipartitions are wrapped in Cuts.
system_directed_bipartitions(nodes) == directed_bipartition(nodes, TRUE)

----------------------------------------------------------------------------
(* partition.py: all set partitions *)

RECURSIVE _partitions(_)
_partitions(collection) ==
    IF Len(collection) = 0 THEN <<>>
    ELSE IF Len(collection) = 1 THEN << << collection >> >>
    ELSE LET first == Head(collection)
             smallers == _partitions(Tail(collection))
             \* what the body of the outer loop yields for one `smaller`
             body(smaller) ==
                 [n1 \in 1..Len(smaller) |->
                    [smaller EXCEPT ![n1] = <<first>> \o smaller[n1]]]
                 \o << << <<first>> >> \o smaller >>
         IN chain([s \in 1..Len(smallers) |-> body(smallers[s])])

\* partitions ignoring nontrivial: nothing is skipped.
partitions_keep_first(collection, nontrivial) == _partitions(collection)

partitions(collection, nontrivial) ==
    IF nontrivial THEN drop1(_partitions(collection)) ELSE _partitions(collection)

----------------------------------------------------------------------------
(* partition.py: Knuth's algorithm for k-partitions *)

\* Python list indexing: the position that index idx denotes in a list of
\* length len (negative indices count from the end), or -1 for IndexError.
py_index(len, idx) ==
    IF 0 <= idx /\ idx < len THEN idx
    ELSE IF idx < 0 /\ -len <= idx THEN idx + len
    ELSE -1

\* _visit reading a[j] for element j instead of a[j + 1].
_visit_shifted(n, a, k, collection) ==
    [b1 \in 1..k |->
       take(collection,
            SelectSeq(range(n), LAMBDA j : py_index(k, a[j]) = b1 - 1))]

\* ps[b] collects collection[j] for the j of range(n) with a[j + 1] = b.
_visit(n, a, k, collection) ==
    [b1 \in 1..k |->
       take(collection,
            SelectSeq(range(n), LAMBDA j : py_index(k, a[j + 1]) = b1 - 1))]

\* The generators _f and _b share the array a and mutate it in place.  A
\* generator state st holds the array (st.a), the partitions yielded so far
\* (st.out) and the array as it was at each yield (st.arrs).
yield_visit(st, n, k, collection) ==
    [st EXCEPT !.out = Append(@, _visit(n, st.a, k, collection)),
               !.arrs = Append(@, st.a)]

set_a(st, i, v) == [st EXCEPT !.a[i] = v]

RECURSIVE _f(_, _, _, _, _, _, _), _b(_, _, _, _, _, _, _)
RECURSIVE f_countdown(_, _, _, _, _), f_sweep(_, _, _, _, _, _, _)
RECURSIVE b_countup(_, _, _, _, _, _), b_sweep(_, _, _, _, _, _, _)

\* _f, lines 308-310: while a[nu] > 0: a[nu] -= 1; yield
f_countdown(nu, n, st, k, collection) ==
    IF st.a[nu] > 0
    THEN f_countdown(nu, n,
                     yield_visit(set_a(st, nu, st.a[nu] - 1), n, k, collection),
                     k, collection)
    ELSE st

\* _f, lines 322-329: while a[nu] > 0: a[nu] -= 1; _b or _f on (mu, nu - 1)
f_sweep(mu, nu, sigma, n, st, k, collection) ==
    IF st.a[nu] > 0
    THEN LET st1 == set_a(st, nu, st.a[nu] - 1)
             st2 == IF (st1.a[nu] + sigma) % 2 = 1
                    THEN _b(mu, nu - 1, 0, n, st1, k, collection)
                    ELSE _f(mu, nu - 1, 0, n, st1, k, collection)
         IN f_sweep(mu, nu, sigma, n, st2, k, collection)
    ELSE st

_f(mu, nu, sigma, n, st, k, collection) ==
    LET st1 == IF mu = 2
               THEN yield_visit(st, n, k, collection)
               ELSE _f(mu - 1, nu - 1, (mu + sigma) % 2, n, st, k, collection)
    IN IF nu = mu + 1
       THEN f_countdown(nu, n,
                        yield_visit(set_a(st1, mu, mu - 1), n, k, collection),
                        k, collection)
       ELSE IF nu > mu + 1
       THEN LET st2 == IF (mu + sigma) % 2 = 1
                       THEN set_a(st1, nu - 1, mu - 1)
                       ELSE set_a(st1, mu, mu - 1)
                st3 == IF (st2.a[nu] + sigma) % 2 = 1
                       THEN _b(mu, nu - 1, 0, n, st2, k, collection)
                       ELSE _f(mu, nu - 1, 0, n, st2, k, collection)
            IN f_sweep(mu, nu, sigma, n, st3, k, collection)
       ELSE st1

\* _b, lines 336-338: while a[nu] < mu - 1: yield; a[nu] += 1
b_countup(mu, nu, n, st, k, collection) ==
    IF st.a[nu] < mu - 1
    THEN LET st1 == yield_visit(st, n, k, collection)
         IN b_countup(mu, nu, n, set_a(st1, nu, st1.a[nu] + 1), k, collection)
    ELSE st

\* _b, lines 348-355: while a[nu] < mu - 1: a[nu] += 1; _f or _b on (mu, nu - 1)
b_sweep(mu, nu, sigma, n, st, k, collection) ==
    IF st.a[nu] < mu - 1
    THEN LET st1 == set_a(st, nu, st.a[nu] + 1)
             st2 == IF (st1.a[nu] + sigma) % 2 = 1
                    THEN _f(mu, nu - 1, 0, n, st1, k, collection)
                    ELSE _b(mu, nu - 1, 0, n, st1, k, collection)
         IN b_sweep(mu, nu, sigma, n, st2, k, collection)
    ELSE st

_b(mu, nu, sigma, n, st, k, collection) ==
    LET st1 == IF nu = mu + 1
               THEN set_a(yield_visit(b_countup(mu, nu, n, st, k, collection),
                                      n, k, collection),
                          mu, 0)
               ELSE IF nu > mu + 1
               THEN LET s1 == IF (st.a[nu] + sigma) % 2 = 1
                              THEN _f(mu, nu - 1, 0, n, st, k, collection)
                              ELSE _b(mu, nu - 1, 0, n, st, k, collection)
                        s2 == b_sweep(mu, nu, sigma, n, s1, k, collection)
                    IN IF (mu + sigma) % 2 = 1
                       THEN set_a(s2, nu - 1, 0)
                       ELSE set_a(s2, mu, 0)
               ELSE st
    IN IF mu = 2
       THEN yield_visit(st1, n, k, collection)
       ELSE _b(mu - 1, nu - 1, (mu + sigma) % 2, n, st1, k, collection)

\* k_partitions, lines 385-387: a = [0] * (n + 1), then a[n - k + j] = j - 1
\* for j = 1..k.  The list has n + 1 slots; an index below -(n + 1) raises
\* IndexError, which init.err records.
RECURSIVE initial_a(_, _, _, _)
initial_a(j, n, k, init) ==
    IF j > k \/ init.err # "none" THEN init
    ELSE LET pos == py_index(n + 1, n - k + j)
         IN IF pos = -1
            THEN [init EXCEPT !.err = "IndexError"]
            ELSE initial_a(j + 1, n, k, [init EXCEPT !.a[pos] = j - 1])

\* k_partitions returning nothing for k < 2 instead of k < 1.
k_partitions_below_two(collection, k) ==
    LET n == Len(collection)
        nothing == [out |-> <<>>, arrs |-> <<>>, err |-> "none"]
    IN IF n = 0 \/ k < 2 THEN nothing
       ELSE IF k = n
       THEN [nothing EXCEPT !.out = << [i \in 1..n |-> << collection[i] >>] >>]
       ELSE LET init == initial_a(1, n, k, [a |-> [i \in 0..n |-> 0], err |-> "none"])
            IN IF init.err # "none" THEN [nothing EXCEPT !.err = init.err]
               ELSE LET st == _f(k, n, 0, n, [a |-> init.a, out |-> <<>>, arrs |-> <<>>],
                                 k, collection)
                    IN [out |-> st.out, arrs |-> st.arrs, err |-> "none"]

\* k_partitions starting with the backward sweep _b instead of _f.
k_partitions_backward_first(collection, k) ==
    LET n == Len(collection)
        nothing == [out |-> <<>>, arrs |-> <<>>, err |-> "none"]
    IN IF n = 0 \/ k < 1 THEN nothing
       ELSE IF k = 1 THEN [nothing EXCEPT !.out = << << collection >> >>]
       ELSE IF k = n
       THEN [nothing EXCEPT !.out = << [i \in 1..n |-> << collection[i] >>] >>]
       ELSE LET init == initial_a(1, n, k, [a |-> [i \in 0..n |-> 0], err |-> "none"])
            IN IF init.err # "none" THEN [nothing EXCEPT !.err = init.err]
               ELSE LET st == _b(k, n, 0, n, [a |-> init.a, out |-> <<>>, arrs |-> <<>>],
                                 k, collection)
                    IN [out |-> st.out, arrs |-> st.arrs, err |-> "none"]

\* k_partitions starting from a = [1] * (n + 1).
k_partitions_from_ones(collection, k) ==
    LET n == Len(collection)
        nothing == [out |-> <<>>, arrs |-> <<>>, err |-> "none"]
    IN IF n = 0 \/ k < 1 THEN nothing
       ELSE IF k = 1 THEN [nothing EXCEPT !.out = << << collection >> >>]
       ELSE IF k = n
       THEN [nothing EXCEPT !.out = << [i \in 1..n |-> << collection[i] >>] >>]
       ELSE LET init == initial_a(1, n, k, [a |-> [i \in 0..n |-> 1], err |-> "none"])
            IN IF init.err # "none" THEN [nothing EXCEPT !.err = init.err]
               ELSE LET st == _f(k, n, 0, n, [a |-> init.a, out |-> <<>>, arrs |-> <<>>],
                                 k, collection)
                    IN [out |-> st.out, arrs |-> st.arrs, err |-> "none"]

\* list(k_partitions(collection, k)): the partitions yielded (out), the
\* array at each yield (arrs) and the exception raised, if any (err).
k_partitions(collection, k) ==
    LET n == Len(collection)
        nothing == [out |-> <<>>, arrs |-> <<>>, err |-> "none"]
    IN IF n = 0 \/ k < 1 THEN nothing
       ELSE IF k = 1 THEN [nothing EXCEPT !.out = << << collection >> >>]
       ELSE IF k = n
       THEN [nothing EXCEPT !.out = << [i \in 1..n |-> << collection[i] >>] >>]
       ELSE LET init == initial_a(1, n, k, [a |-> [i \in 0..n |-> 0], err |-> "none"])
            IN IF init.err # "none" THEN [nothing EXCEPT !.err = init.err]
               ELSE LET st == _f(k, n, 0, n, [a |-> init.a, out |-> <<>>, arrs |-> <<>>],
                                 k, collection)
                    IN [out |-> st.out, arrs |-> st.arrs, err |-> "none"]

----------------------------------------------------------------------------
(* combinatorics.py *)

\* list(pair_indices(n, m, k)) after m has defaulted to n and n, m = sorted([n, m])
pair_indices(n, m, k) ==
    LET lo == IF n <= m THEN n ELSE m
        hi == IF n <= m THEN m ELSE n
        \* range(i + k, m)
        js(i) == SelectSeq(range(hi), LAMBDA j : j >= i + k)
    IN chain([i1 \in 1..lo |->
                [q \in 1..Len(js(i1 - 1)) |-> << i1 - 1, js(i1 - 1)[q] >>]])

\* frozenset.intersection(*[sets[i] for i in c]) for a non-empty index set c
intersection_of(sets, c) ==
    {x \in UNION {sets[i + 1] : i \in c} : \A i \in c : x \in sets[i + 1]}

\* defaultdict(set).__getitem__: reading a missing key stores an empty set.
touch(combinations, key) ==
    IF key \in DOMAIN combinations THEN combinations
    ELSE [s \in DOMAIN combinations \cup {key} |->
            IF s = key THEN {} ELSE combinations[s]]

\* Lines 79-89: one pass of the loop over i, for index i and order k.
\* working is the local nonempty_intersection; the loop over its
\* combinations touches every combination once and its effect does not
\* depend on the iteration order.  Yields the dictionaries after the pass
\* (st) and the combinations left to extend (remaining).
index_step_caches_set(i, k, working, sets, st) ==
    LET covered == {c \in working : i \in c}
        found == {c \in working \ covered :
                    sets[i + 1] \cap st.intersections[c] # {}}
        added == {{i} \cup c : c \in found}
        st1 == IF found = {} THEN st
               ELSE [intersections |->
                       [nc \in DOMAIN st.intersections \cup added |->
                          IF nc \in added THEN sets[i + 1]
                          ELSE st.intersections[nc]],
                     combinations |->
                       [touch(st.combinations, k + 1) EXCEPT
                          ![k + 1] = @ \cup added]]
    IN [st |-> st1, remaining |-> working \ covered]

index_step(i, k, working, sets, st) ==
    LET covered == {c \in working : i \in c}
        found == {c \in working \ covered :
                    sets[i + 1] \cap st.intersections[c] # {}}
        added == {{i} \cup c : c \in found}
        source(nc) == CHOOSE c \in found : {i} \cup c = nc
        st1 == IF found = {} THEN st
               ELSE [intersections |->
                       [nc \in DOMAIN st.intersections \cup added |->
                          IF nc \in added
                          THEN sets[i + 1] \cap st.intersections[source(nc)]
                          ELSE st.intersections[nc]],
                     combinations |->
                       [touch(st.combinations, k + 1) EXCEPT
                          ![k + 1] = @ \cup added]]
    IN [st |-> st1, remaining |-> working \ covered]

\* Lines 78-91: the loop over i for one order k, with its break.
RECURSIVE extend_by_index(_, _, _, _, _)
extend_by_index(i, k, working, sets, st) ==
    IF i >= Len(sets) THEN st
    ELSE LET step == index_step(i, k, working, sets, st)
         IN IF step.remaining = {} THEN step.st
            ELSE extend_by_index(i + 1, k, step.remaining, sets, step.st)

\* Lines 75-93: for k in range(2, max_size), with its break.
RECURSIVE grow_orders(_, _, _, _)
grow_orders(k, max_size, sets, st) ==
    IF k >= max_size THEN st
    ELSE LET st1 == [st EXCEPT !.combinations = touch(@, k)]
             nonempty_intersection == st1.combinations[k]
         IN IF nonempty_intersection # {}
            THEN grow_orders(k + 1, max_size, sets,
                             extend_by_index(0, k, nonempty_intersection, sets, st1))
            ELSE st1

\* max_size as the loop uses it: n for None.  max_size is {} for None and
\* {m} for m.
effective_max_size(sets, max_size) ==
    IF max_size = {} THEN Len(sets) ELSE CHOOSE m \in max_size : TRUE

\* Lines 64-72: the pairs, their cached intersections and combinations[2].
by_order_initial(sets) ==
    LET n == Len(sets)
        pairs == pair_indices(n, n, 1)
        pair_sets == {{pairs[p][1], pairs[p][2]} : p \in 1..Len(pairs)}
        intersections == [pair \in pair_sets |-> intersection_of(sets, pair)]
        combinations == [s \in {2} |-> {pair \in pair_sets : intersections[pair] # {}}]
    IN [intersections |-> intersections, combinations |-> combinations]

\* The state of combinations_with_nonempty_intersection_by_order when it
\* reaches its return statement.
by_order_final(sets, min_size, max_size) ==
    grow_orders(2, effective_max_size(sets, max_size), sets, by_order_initial(sets))

\* The return statement keeping only the sizes above min_size.
by_order_returned_above(combinations, min_size) ==
    LET min_size1 == IF min_size > 2 THEN min_size ELSE 2
    IN [size \in {s \in DOMAIN combinations :
                    s > min_size1 /\ combinations[s] # {}} |-> combinations[size]]

\* Lines 95-99: the dictionary comprehension of the return statement.
by_order_returned(combinations, min_size) ==
    LET min_size1 == IF min_size > 2 THEN min_size ELSE 2
    IN [size \in {s \in DOMAIN combinations :
                    s >= min_size1 /\ combinations[s] # {}} |-> combinations[size]]

combinations_with_nonempty_intersection_by_order(sets, min_size, max_size) ==
    by_order_returned(by_order_final(sets, min_size, max_size).combinations, min_size)

----------------------------------------------------------------------------
(* models/cuts.py, as far as partition.py relies on it *)

\* Part(mechanism, purview): a named pair of tuples.
Part(mechanism, purview) == [mechanism |-> mechanism, purview |-> purview]

\* Tuple comparison as Python orders tuples of integers: s < t.
RECURSIVE tuple_less(_, _)
tuple_less(s, t) ==
    IF Len(t) = 0 THEN FALSE
    ELSE IF Len(s) = 0 THEN TRUE
    ELSE IF Head(s) # Head(t) THEN Head(s) < Head(t)
    ELSE tuple_less(Tail(s), Tail(t))

\* The canonical order of Parts: by mechanism, then by purview.
part_less(x, y) ==
    \/ tuple_less(x.mechanism, y.mechanism)
    \/ x.mechanism = y.mechanism /\ tuple_less(x.purview, y.purview)

\* KPartition.normalize(): the same parts in canonical order.
normalize(partition) ==
    LET n == Len(partition)
        arranged == {[i \in 1..n |-> partition[p[i]]] : p \in Permutations(1..n)}
    IN CHOOSE q \in arranged :
          \A i, j \in 1..n : i < j => ~part_less(q[j], q[i])

\* The identity of a Partition: its set of Parts.
parts_of(partition) == {partition[i] : i \in 1..Len(partition)}

----------------------------------------------------------------------------
(* partition.py: the mechanism/purview schemes BI, TRI and ALL *)

\* list(product(xs, ys)): pairs, the second position advancing fastest.
product2(xs, ys) ==
    chain([x \in 1..Len(xs) |-> [y \in 1..Len(ys) |-> << xs[x], ys[y] >>]])

\* A set's elements in the order the set iterates them, which the source
\* does not control: an arbitrary arrangement.
RECURSIVE in_some_order(_)
in_some_order(S) ==
    IF S = {} THEN <<>>
    ELSE LET x == CHOOSE y \in S : TRUE
         IN << x >> \o in_some_order(S \ {x})

\* Line 479 testing the second part only.
bi_keeps_second_only(n, d) == n[2] # <<>> \/ d[2] # <<>>

\* Line 479, the filter of mip_bipartitions on one pair (n, d).
bi_keeps(n, d) == (n[1] # <<>> \/ d[1] # <<>>) /\ (n[2] # <<>> \/ d[2] # <<>>)

\* list(mip_bipartitions(mechanism, purview))
mip_bipartitions(mechanism, purview) ==
    LET numerators == bipartition(mechanism, FALSE)
        denominators == directed_bipartition(purview, FALSE)
        kept == SelectSeq(product2(numerators, denominators),
                          LAMBDA nd : bi_keeps(nd[1], nd[2]))
    IN [e \in 1..Len(kept) |->
          << Part(kept[e][1][1], kept[e][2][1]), Part(kept[e][1][2], kept[e][2][2]) >>]

\* wedge_partitions.valid without its first test.
valid_unchecked_first(factoring) ==
    LET numerator == factoring[1]
        denominator == factoring[2]
    IN /\ numerator[2] # <<>> \/ denominator[2] # <<>>
       /\ \/ numerator[1] # <<>> /\ numerator[2] # <<>>
          \/ denominator[1] = <<>>
          \/ denominator[2] = <<>>

\* wedge_partitions.valid
valid(factoring) ==
    LET numerator == factoring[1]
        denominator == factoring[2]
    IN /\ numerator[1] # <<>> \/ denominator[1] # <<>>
       /\ numerator[2] # <<>> \/ denominator[2] # <<>>
       /\ \/ numerator[1] # <<>> /\ numerator[2] # <<>>
          \/ denominator[1] = <<>>
          \/ denominator[2] = <<>>

\* wedge_partitions.nonempty
nonempty(part) == part.mechanism # <<>> \/ part.purview # <<>>

\* wedge_partitions.compressible looking at the pairs with the first part only.
compressible_first_pairs(tripart) ==
    \E xy \in {<<1, 2>>, <<1, 3>>} :
        LET x == tripart[xy[1]]
            y == tripart[xy[2]]
        IN /\ nonempty(x)
           /\ nonempty(y)
           /\ \/ x.mechanism \o y.mechanism = <<>>
              \/ x.purview \o y.purview = <<>>

\* wedge_partitions.compressible
compressible(tripart) ==
    \E xy \in {<<1, 2>>, <<1, 3>>, <<2, 3>>} :
        LET x == tripart[xy[1]]
            y == tripart[xy[2]]
        IN /\ nonempty(x)
           /\ nonempty(y)
           /\ \/ x.mechanism \o y.mechanism = <<>>
              \/ x.purview \o y.purview = <<>>

\* Lines 526-531: the Tripartition built from one factoring, normalized.
tripart_of(factoring) ==
    LET n == factoring[1]
        d == factoring[2]
    IN normalize(<< Part(n[1], d[1]), Part(n[2], d[2]), Part(<<>>, d[3]) >>)

\* Lines 524-558: the loop of wedge_partitions over the valid factorings,
\* from the e-th on; w.yielded is the seen-set, w.out what has been yielded.
RECURSIVE wedge_loop(_, _, _)
wedge_loop(factorings, e, w) ==
    IF e > Len(factorings) THEN w
    ELSE LET tripart == tripart_of(factorings[e])
         IN IF ~compressible(tripart) /\ tripart \notin w.yielded
            THEN wedge_loop(factorings, e + 1,
                            [yielded |-> w.yielded \cup {tripart},
                             out |-> Append(w.out, tripart)])
            ELSE wedge_loop(factorings, e + 1, w)

\* The factorings wedge_partitions goes through: filter(valid, product(...)).
wedge_factorings(mechanism, purview) ==
    SelectSeq(product2(bipartition(mechanism, FALSE), directed_tripartition(purview)),
              valid)

\* list(wedge_partitions(mechanism, purview))
wedge_partitions(mechanism, purview) ==
    wedge_loop(wedge_factorings(mechanism, purview), 1,
               [yielded |-> {}, out |-> <<>>]).out

\* [()] * n_empty
empties(n_empty) == [i \in 1..n_empty |-> <<>>]

\* list(permutations(blocks)): every arrangement of the positions of a
\* list, so a list with equal entries gives equal arrangements repeatedly.
permutations(blocks) ==
    LET n == Len(blocks)
        by_position == in_some_order(Permutations(1..n))
    IN [a \in 1..Len(by_position) |-> [i \in 1..n |-> blocks[by_position[a][i]]]]

\* Line 587 without the set: every arrangement, repeats included.
set_permutations_keeps_repeats(blocks) == permutations(blocks)

\* Line 587, set(permutations(blocks)) as the loop goes through it: the
\* distinct arrangements, each once.
set_permutations(blocks) ==
    in_some_order({permutations(blocks)[a] : a \in 1..Len(permutations(blocks))})

\* zip(xs, ys) stops at the shorter list.
zip_parts(ms, ps) ==
    [i \in 1..(IF Len(ms) <= Len(ps) THEN Len(ms) ELSE Len(ps)) |-> Part(ms[i], ps[i])]

\* Line 577 without the min: as many purview parts as the purview is long.
max_purview_partition_unbounded(purview, n_mechanism_parts) == Len(purview)

\* Lines 575-577: the largest n_purview_parts tried for a mechanism
\* partition to which the empty block has been appended.
max_purview_partition(purview, n_mechanism_parts) ==
    IF Len(purview) <= n_mechanism_parts THEN Len(purview) ELSE n_mechanism_parts

\* Lines 596-597 testing the first part's mechanism only.
skips_whatever_purview(mechanism, parts) == parts[1].mechanism = mechanism

\* Lines 596-597: the arrangement all_partitions passes over.
skips(mechanism, parts) ==
    parts[1].mechanism = mechanism /\ parts[1].purview # <<>>

\* Lines 586-599 for one padded purview partition: a record for every
\* arrangement tried, with the parts built (parts), the loop variables that
\* led to it and whether it is yielded or skipped.
all_partitions_permutations(mechanism, mechanism_partition, purview_partition, n_purview_parts) ==
    LET arrangements == set_permutations(purview_partition)
    IN [a \in 1..Len(arrangements) |->
          LET parts == zip_parts(mechanism_partition, arrangements[a])
          IN [parts |-> parts,
              n_mechanism_parts |-> Len(mechanism_partition),
              n_purview_parts |-> n_purview_parts,
              yielded |-> ~skips(mechanism, parts)]]

\* Lines 574-599: everything the loops of all_partitions go through.
all_partitions_tried(mechanism, purview) ==
    LET mechanism_partitions == partitions(mechanism, FALSE)
        for_mechanism_partition(mp) ==
            LET mechanism_partition == Append(mp, <<>>)
                n_mechanism_parts == Len(mechanism_partition)
                for_n_purview_parts(n_purview_parts) ==
                    LET n_empty == n_mechanism_parts - n_purview_parts
                        purview_partitions == k_partitions(purview, n_purview_parts).out
                    IN chain([q \in 1..Len(purview_partitions) |->
                                all_partitions_permutations(
                                    mechanism, mechanism_partition,
                                    purview_partitions[q] \o empties(n_empty),
                                    n_purview_parts)])
            IN chain([k \in 1..max_purview_partition(purview, n_mechanism_parts) |->
                        for_n_purview_parts(k)])
    IN chain([m \in 1..Len(mechanism_partitions) |->
                for_mechanism_partition(mechanism_partitions[m])])

\* list(all_partitions(mechanism, purview)): the KPartitions yielded.
all_partitions(mechanism, purview) ==
    LET kept == SelectSeq(all_partitions_tried(mechanism, purview),
                          LAMBDA t : t.yielded)
    IN [e \in 1..Len(kept) |-> kept[e].parts]

----------------------------------------------------------------------------
(* partition.py: bipartitions with one part of length 1 *)

\* list(bipartition_of_one(seq)): ((elt,), tuple(seq[:i] + seq[i + 1:]))
bipartition_of_one(seq) ==
    [i1 \in 1..Len(seq) |->
        << << seq[i1] >>, SubSeq(seq, 1, i1 - 1) \o SubSeq(seq, i1 + 1, Len(seq)) >>]

\* list(reverse_elements(seq)): elt[::-1] for every elt
reverse_elements(seq) == [e \in 1..Len(seq) |-> reversed(seq[e])]

\* directed_bipartition_of_one yielding the bipartitions once, unreversed.
directed_bipartition_of_one_unreversed(seq) == bipartition_of_one(seq)

\* list(directed_bipartition_of_one(seq))
directed_bipartition_of_one(seq) ==
    LET bipartitions == bipartition_of_one(seq)
    IN bipartitions \o reverse_elements(bipartitions)

----------------------------------------------------------------------------
(* partition.py: the cut matrices of the GENERAL scheme *)

\* What a cell of np.empty holds before anything is stored in it.
Uninitialized == -1

\* np.empty([n, n], dtype=int): cells (i, j) for 0 <= i, j < n.
np_empty(n) == [ij \in (0..(n - 1)) \X (0..(n - 1)) |-> Uninitialized]

\* np.diag_indices(n), as index pairs.
diag_indices(n) == [i1 \in 1..n |-> << i1 - 1, i1 - 1 >>]

\* np.triu_indices(n, k=1): the cells above the diagonal, row by row.
triu_indices(n) == SelectSeq(product2(range(n), range(n)), LAMBDA ij : ij[1] < ij[2])

\* np.tril_indices(n, k=-1): the cells below the diagonal, row by row.
tril_indices(n) == SelectSeq(product2(range(n), range(n)), LAMBDA ij : ij[1] > ij[2])

\* cm[indices] = values, values[e] going to the e-th index pair.
np_assign(cm, indices, values) ==
    [ij \in DOMAIN cm |->
        IF \E e \in 1..Len(indices) : indices[e] = ij
        THEN values[CHOOSE e \in 1..Len(indices) : indices[e] = ij]
        ELSE cm[ij]]

\* cm[np.diag_indices(n)] = 0
np_fill(cm, indices, value) ==
    [ij \in DOMAIN cm |-> IF \E e \in 1..Len(indices) : indices[e] = ij THEN value ELSE cm[ij]]

\* Lines 811-815: the matrix built from one combination.
cut_matrix_of(n, mid, combination) ==
    LET cm0 == np_fill(np_empty(n), diag_indices(n), 0)
        cm1 == np_assign(cm0, triu_indices(n), SubSeq(combination, 1, mid))
    IN np_assign(cm1, tril_indices(n), SubSeq(combination, mid + 1, Len(combination)))

\* _cut_matrices without the islice: the all-zero combination included.
_cut_matrices_from_first(n) ==
    LET repeat == n * n - n
        mid == repeat \div 2
        combinations == product_repeat(<< 0, 1 >>, repeat)
    IN [e \in 1..Len(combinations) |-> cut_matrix_of(n, mid, combinations[e])]

\* list(_cut_matrices(n))
_cut_matrices(n) ==
    LET repeat == n * n - n
        mid == repeat \div 2
        combinations == drop1(product_repeat(<< 0, 1 >>, repeat))
    IN [e \in 1..Len(combinations) |-> cut_matrix_of(n, mid, combinations[e])]

\* models/cuts.py: the two cuts of the GENERAL scheme, by their arguments.
CompleteGeneralKCut(node_indices) ==
    [class |-> "CompleteGeneralKCut", node_indices |-> node_indices,
     cut_matrix |-> np_empty(0)]

GeneralKCut(node_indices, cut_matrix) ==
    [class |-> "GeneralKCut", node_indices |-> node_indices, cut_matrix |-> cut_matrix]

\* list(general(node_indices))
general(node_indices) ==
    LET cut_matrices == _cut_matrices(Len(node_indices))
    IN << CompleteGeneralKCut(node_indices) >>
       \o [e \in 1..Len(cut_matrices) |-> GeneralKCut(node_indices, cut_matrices[e])]

----------------------------------------------------------------------------
(* partition.py: the registries of schemes and the configured dispatch *)

\* None, and a value that is not None.
None == {}

Some(v) == {v}

the(opt) == CHOOSE v \in opt : TRUE

\* registry.py, Registry.__getitem__: the function registered under a
\* name, or KeyError for a name nothing is registered under.
getitem(store, name) ==
    IF name \in DOMAIN store
    THEN [err |-> "none", func |-> store[name]]
    ELSE [err |-> "KeyError", func |-> "none"]

\* conf.py, fallback(*candidates): the first candidate that is not None.
fallback(first, second) == IF first # None THEN the(first) ELSE second

\* The distinction schemes, as the @partition_types.register decorators
\* leave the registry.
partition_types ==
    [name \in {"BI", "TRI", "ALL"} |->
        CASE name = "BI" -> "mip_bipartitions"
          [] name = "TRI" -> "wedge_partitions"
          [] name = "ALL" -> "all_partitions"]

\* The system schemes, as the @system_partition_types.register decorators
\* leave the registry.
system_partition_types ==
    [name \in {"DIRECTED_BI", "DIRECTED_BI_CUT_ONE", "DIRECTED_BI_SIMPLE",
               "TEMPORAL_DIRECTED_BI", "TEMPORAL_DIRECTED_BI_CUT_ONE", "GENERAL"} |->
        CASE name = "DIRECTED_BI" -> "system_directed_bipartitions"
          [] name = "DIRECTED_BI_CUT_ONE" -> "system_directed_bipartitions_cut_one"
          [] name = "DIRECTED_BI_SIMPLE" -> "system_bipartitions_simple"
          [] name = "TEMPORAL_DIRECTED_BI" -> "system_temporal_directed_bipartitions"
          [] name = "TEMPORAL_DIRECTED_BI_CUT_ONE" ->
                 "system_temporal_directed_bipartitions_cut_one"
          [] name = "GENERAL" -> "general"]

\* models/cuts.py: Cut(from_nodes, to_nodes), by its arguments.
Cut(from_nodes, to_nodes) ==
    [class |-> "Cut", from_nodes |-> from_nodes, to_nodes |-> to_nodes]

\* models/cuts.py: SystemPartition(direction, from_nodes, to_nodes).
SystemPartition(direction, from_nodes, to_nodes) ==
    [class |-> "SystemPartition", direction |-> direction,
     from_nodes |-> from_nodes, to_nodes |-> to_nodes]

\* direction.py: Direction.both()
Direction_both == << "CAUSE", "EFFECT" >>

\* The wrapper of _bipartitions_to_cuts applied to a list of bipartitions.
_bipartitions_to_cuts(bipartitions) ==
    [e \in 1..Len(bipartitions) |-> Cut(bipartitions[e][1], bipartitions[e][2])]

\* The wrapper of _bipartitions_to_temporal_system_partitions.
_bipartitions_to_temporal_system_partitions(bipartitions) ==
    chain([e \in 1..Len(bipartitions) |->
             [d \in 1..Len(Direction_both) |->
                 SystemPartition(Direction_both[d], bipartitions[e][1],
                                 bipartitions[e][2])]])

\* The DIRECTED_BI_CUT_ONE system scheme, before its bipartitions are wrapped.
system_directed_bipartitions_cut_one(nodes) == directed_bipartition_of_one(nodes)

\* system_bipartitions_simple(nodes)
system_bipartitions_simple(nodes) ==
    chain([n \in 1..(Len(nodes) - 1) |->
             LET part1 == SubSeq(nodes, 1, n)
                 part2 == SubSeq(nodes, n + 1, Len(nodes))
             IN << Cut(part1, part2), Cut(part2, part1) >>])

\* func(mechanism, purview, node_labels) for a registered distinction scheme.
call_partition_type(func, mechanism, purview) ==
    CASE func = "mip_bipartitions" -> mip_bipartitions(mechanism, purview)
      [] func = "wedge_partitions" -> wedge_partitions(mechanism, purview)
      [] func = "all_partitions" -> all_partitions(mechanism, purview)

\* func(nodes, node_labels=node_labels) for a registered system scheme.
call_system_partition_type(func, nodes) ==
    CASE func = "system_directed_bipartitions" ->
             _bipartitions_to_cuts(system_directed_bipartitions(nodes))
      [] func = "system_directed_bipartitions_cut_one" ->
             _bipartitions_to_cuts(system_directed_bipartitions_cut_one(nodes))
      [] func = "system_bipartitions_simple" -> system_bipartitions_simple(nodes)
      [] func = "system_temporal_directed_bipartitions" ->
             _bipartitions_to_temporal_system_partitions(
                 directed_bipartition(nodes, TRUE))
      [] func = "system_temporal_directed_bipartitions_cut_one" ->
             _bipartitions_to_temporal_system_partitions(
                 directed_bipartition_of_one(nodes))
      [] func = "general" -> general(nodes)

\* mip_partitions using the BI scheme when nothing is registered under the
\* configured name.
mip_partitions_defaulting(PARTITION_TYPE, mechanism, purview) ==
    LET found == getitem(partition_types, PARTITION_TYPE)
        func == IF found.err # "none" THEN "mip_bipartitions" ELSE found.func
    IN [err |-> "none", func |-> func,
        out |-> call_partition_type(func, mechanism, purview)]

\* mip_partitions(mechanism, purview) under config.PARTITION_TYPE: the
\* exception raised (err), the function dispatched to (func) and the
\* partitions it gives (out).
mip_partitions(PARTITION_TYPE, mechanism, purview) ==
    LET found == getitem(partition_types, PARTITION_TYPE)
    IN IF found.err # "none"
       THEN [err |-> found.err, func |-> "none", out |-> <<>>]
       ELSE [err |-> "none", func |-> found.func,
             out |-> call_partition_type(found.func, mechanism, purview)]

\* filter(filter_func, partitions), for the filters lambda p: True and
\* lambda p: False.
filter(filter_func, iterable) == IF the(filter_func) THEN iterable ELSE <<>>

\* system_partitions(nodes, partition_scheme=..., filter_func=...) under
\* config.SYSTEM_PARTITION_TYPE.
system_partitions(nodes, partition_scheme, filter_func, SYSTEM_PARTITION_TYPE) ==
    LET scheme == fallback(partition_scheme, SYSTEM_PARTITION_TYPE)
        found == getitem(system_partition_types, scheme)
    IN IF found.err # "none"
       THEN [err |-> found.err, func |-> "none", out |-> <<>>]
       ELSE LET cuts == call_system_partition_type(found.func, nodes)
            IN [err |-> "none", func |-> found.func,
                out |-> IF filter_func # None THEN filter(filter_func, cuts)
                        ELSE cuts]

----------------------------------------------------------------------------
(* compute/parallel.py: the number of processes *)

\* get_num_processes accepting every negative NUMBER_OF_CORES.
get_num_processes_any_negative(cpu_count, NUMBER_OF_CORES) ==
    IF NUMBER_OF_CORES = 0 \/ NUMBER_OF_CORES > cpu_count
    THEN [num |-> 0, err |-> "ValueError"]
    ELSE IF NUMBER_OF_CORES < 0
    THEN [num |-> cpu_count + NUMBER_OF_CORES + 1, err |-> "none"]
    ELSE [num |-> NUMBER_OF_CORES, err |-> "none"]

\* get_num_processes(): the number returned (num) or the exception raised
\* (err), from multiprocessing.cpu_count() and config.NUMBER_OF_CORES.
get_num_processes(cpu_count, NUMBER_OF_CORES) ==
    IF NUMBER_OF_CORES = 0 THEN [num |-> 0, err |-> "ValueError"]
    ELSE IF NUMBER_OF_CORES > cpu_count THEN [num |-> 0, err |-> "ValueError"]
    ELSE IF NUMBER_OF_CORES < 0
    THEN LET num == cpu_count + NUMBER_OF_CORES + 1
         IN IF num <= 0 THEN [num |-> 0, err |-> "ValueError"]
            ELSE [num |-> num, err |-> "none"]
    ELSE [num |-> NUMBER_OF_CORES, err |-> "none"]

----------------------------------------------------------------------------
(* The callers: every operation is called with inputs from bounded sets,  *)
(* and its result (a generator's whole output) is recorded.               *)

Elems == 1..MaxLen

\* Tuples of distinct elements, of every length up to MaxLen.
Collections ==
    {s \in UNION {[1..m -> Elems] : m \in 0..MaxLen} :
       \A i, j \in 1..Len(s) : i # j => s[i] # s[j]}

Ns == -2..MaxN

\* k ranges far enough beyond the collection's length for the initial
\* array indices to leave the list.
Ks == -1..(2 * MaxLen + 3)

Universe == 1..MaxElem

Families == UNION {[1..m -> SUBSET Universe] : m \in 0..MaxSets}

MinSizes == 0..(MaxSets + 1)

MaxSizes == {{}} \cup {{m} : m \in 0..(MaxSets + 1)}

\* Mechanisms are the ascending tuples of the nodes 0..MaxMechanism-1 and
\* purviews those of the nodes 1..MaxPurview, so that the two overlap.
ascending_tuple(S) ==
    SelectSeq(range(MaxMechanism + MaxPurview + 1), LAMBDA x : x \in S)

Mechanisms == {ascending_tuple(S) : S \in SUBSET (0..(MaxMechanism - 1))}

Purviews == {ascending_tuple(S) : S \in SUBSET (1..MaxPurview)}

\* Scheme names a configuration may hold: the registered ones and two that
\* nothing is registered under.
PartitionTypeNames == DOMAIN partition_types \cup {"NONE", "bi"}

SystemPartitionTypeNames == DOMAIN system_partition_types \cup {"NONE", "BI"}

\* The dispatch is tried on mechanisms and purviews of at most two nodes.
ShortOf(tuples) == {t \in tuples : Len(t) <= 2}

Init ==
    /\ fn = "none"
    /\ args = <<>>
    /\ result = <<>>
    /\ raised = "none"

Call_bipartition_indices ==
    /\ fn = "none"
    /\ \E N \in Ns :
        /\ fn' = "bipartition_indices"
        /\ args' = [N |-> N]
        /\ result' = bipartition_indices(N)
        /\ raised' = "none"

Call_directed_bipartition_indices ==
    /\ fn = "none"
    /\ \E N \in Ns :
        /\ fn' = "directed_bipartition_indices"
        /\ args' = [N |-> N]
        /\ result' = directed_bipartition_indices(N)
        /\ raised' = "none"

Call_directed_tripartition_indices ==
    /\ fn = "none"
    /\ \E N \in Ns :
        /\ fn' = "directed_tripartition_indices"
        /\ args' = [N |-> N]
        /\ result' = directed_tripartition_indices(N)
        /\ raised' = "none"

Call_bipartition ==
    /\ fn = "none"
    /\ \E seq \in Collections, nontrivial \in BOOLEAN :
        /\ fn' = "bipartition"
        /\ args' = [seq |-> seq, nontrivial |-> nontrivial]
        /\ result' = bipartition(seq, nontrivial)
        /\ raised' = "none"

Call_directed_bipartition ==
    /\ fn = "none"
    /\ \E seq \in Collections, nontrivial \in BOOLEAN :
        /\ fn' = "directed_bipartition"
        /\ args' = [seq |-> seq, nontrivial |-> nontrivial]
        /\ result' = directed_bipartition(seq, nontrivial)
        /\ raised' = "none"

Call_directed_tripartition ==
    /\ fn = "none"
    /\ \E seq \in Collections :
        /\ fn' = "directed_tripartition"
        /\ args' = [seq |-> seq]
        /\ result' = directed_tripartition(seq)
        /\ raised' = "none"

Call_system_directed_bipartitions ==
    /\ fn = "none"
    /\ \E nodes \in Collections :
        /\ fn' = "system_directed_bipartitions"
        /\ args' = [seq |-> nodes]
        /\ result' = system_directed_bipartitions(nodes)
        /\ raised' = "none"

Call_partitions ==
    /\ fn = "none"
    /\ \E collection \in Collections, nontrivial \in BOOLEAN :
        /\ fn' = "partitions"
        /\ args' = [collection |-> collection, nontrivial |-> nontrivial]
        /\ result' = partitions(collection, nontrivial)
        /\ raised' = "none"

Call_k_partitions ==
    /\ fn = "none"
    /\ \E collection \in Collections, k \in Ks :
        LET r == k_partitions(collection, k)
        IN /\ fn' = "k_partitions"
           /\ args' = [collection |-> collection, k |-> k]
           /\ result' = r.out
           /\ raised' = r.err

Call_combinations_by_order ==
    /\ fn = "none"
    /\ \E sets \in Families, min_size \in MinSizes, max_size \in MaxSizes :
        /\ fn' = "combinations_with_nonempty_intersection_by_order"
        /\ args' = [sets |-> sets, min_size |-> min_size, max_size |-> max_size]
        /\ result' = combinations_with_nonempty_intersection_by_order(
                         sets, min_size, max_size)
        /\ raised' = "none"

Call_mip_bipartitions ==
    /\ fn = "none"
    /\ \E mechanism \in Mechanisms, purview \in Purviews :
        /\ fn' = "mip_bipartitions"
        /\ args' = [mechanism |-> mechanism, purview |-> purview]
        /\ result' = mip_bipartitions(mechanism, purview)
        /\ raised' = "none"

Call_wedge_partitions ==
    /\ fn = "none"
    /\ \E mechanism \in Mechanisms, purview \in Purviews :
        /\ fn' = "wedge_partitions"
        /\ args' = [mechanism |-> mechanism, purview |-> purview]
        /\ result' = wedge_partitions(mechanism, purview)
        /\ raised' = "none"

\* result.out is what all_partitions yields; result.tried tells, for every
\* arrangement the loops went through, what became of it.
Call_all_partitions ==
    /\ fn = "none"
    /\ \E mechanism \in Mechanisms, purview \in Purviews :
        /\ fn' = "all_partitions"
        /\ args' = [mechanism |-> mechanism, purview |-> purview]
        /\ result' = [out |-> all_partitions(mechanism, purview),
                      tried |-> all_partitions_tried(mechanism, purview)]
        /\ raised' = "none"

Call_directed_bipartition_of_one ==
    /\ fn = "none"
    /\ \E seq \in Collections :
        /\ fn' = "directed_bipartition_of_one"
        /\ args' = [seq |-> seq]
        /\ result' = directed_bipartition_of_one(seq)
        /\ raised' = "none"

Call_general ==
    /\ fn = "none"
    /\ \E n \in 0..MaxCutNodes :
        /\ fn' = "general"
        /\ args' = [node_indices |-> range(n)]
        /\ result' = general(range(n))
        /\ raised' = "none"

Call_get_num_processes ==
    /\ fn = "none"
    /\ \E cpu_count \in 1..MaxCpu, NUMBER_OF_CORES \in (-(MaxCpu + 2))..(MaxCpu + 2) :
        LET r == get_num_processes(cpu_count, NUMBER_OF_CORES)
        IN /\ fn' = "get_num_processes"
           /\ args' = [cpu_count |-> cpu_count, NUMBER_OF_CORES |-> NUMBER_OF_CORES]
           /\ result' = r.num
           /\ raised' = r.err

\* The arrays of k_partitions: a, as it is at each call of _visit.
Call_visit ==
    /\ fn = "none"
    /\ \E collection \in Collections, k \in Ks :
        LET r == k_partitions(collection, k)
        IN /\ fn' = "_visit"
           /\ args' = [collection |-> collection, k |-> k]
           /\ result' = r.arrs
           /\ raised' = r.err

Call_mip_partitions ==
    /\ fn = "none"
    /\ \E PARTITION_TYPE \in PartitionTypeNames, mechanism \in ShortOf(Mechanisms),
          purview \in ShortOf(Purviews) :
        /\ fn' = "mip_partitions"
        /\ args' = [PARTITION_TYPE |-> PARTITION_TYPE, mechanism |-> mechanism,
                    purview |-> purview]
        /\ result' = mip_partitions(PARTITION_TYPE, mechanism, purview)
        /\ raised' = result'.err

Call_system_partitions ==
    /\ fn = "none"
    /\ \E n \in 0..MaxCutNodes, SYSTEM_PARTITION_TYPE \in SystemPartitionTypeNames,
          partition_scheme \in {None} \cup {Some(name) : name \in SystemPartitionTypeNames},
          filter_func \in {None, Some(TRUE), Some(FALSE)} :
        LET r == system_partitions(range(n), partition_scheme, filter_func,
                                   SYSTEM_PARTITION_TYPE)
        IN /\ fn' = "system_partitions"
           /\ args' = [nodes |-> range(n), partition_scheme |-> partition_scheme,
                       filter_func |-> filter_func,
                       SYSTEM_PARTITION_TYPE |-> SYSTEM_PARTITION_TYPE]
           /\ result' = [func |-> r.func, out |-> r.out]
           /\ raised' = r.err

\* The caller drops the result; the next call starts afresh.
Return ==
    /\ fn # "none"
    /\ fn' = "none"
    /\ args' = <<>>
    /\ result' = <<>>
    /\ raised' = "none"

Next ==
    \/ Call_bipartition_indices
    \/ Call_directed_bipartition_indices
    \/ Call_directed_tripartition_indices
    \/ Call_bipartition
    \/ Call_directed_bipartition
    \/ Call_directed_tripartition
    \/ Call_system_directed_bipartitions
    \/ Call_partitions
    \/ Call_k_partitions
    \/ Call_combinations_by_order
    \/ Call_mip_bipartitions
    \/ Call_wedge_partitions
    \/ Call_all_partitions
    \/ Call_directed_bipartition_of_one
    \/ Call_general
    \/ Call_get_num_processes
    \/ Call_visit
    \/ Call_mip_partitions
    \/ Call_system_partitions
    \/ Return

Spec == Init /\ [][Next]_vars

----------------------------------------------------------------------------
(* Vocabulary of the properties *)

\* Stirling number of the second kind, by its recurrence.
RECURSIVE Stirling(_, _)
Stirling(n, k) ==
    IF n = 0 /\ k = 0 THEN 1
    ELSE IF n = 0 \/ k = 0 THEN 0
    ELSE k * Stirling(n - 1, k) + Stirling(n - 1, k - 1)

\* Bell number: the number of set partitions of n elements.
RECURSIVE SumStirling(_, _)
SumStirling(n, k) == IF k < 0 THEN 0 ELSE Stirling(n, k) + SumStirling(n, k - 1)

Bell(n) == SumStirling(n, n)

\* Sum of the lengths of the blocks of p.
RECURSIVE TotalLen(_)
TotalLen(p) == IF Len(p) = 0 THEN 0 ELSE Len(Head(p)) + TotalLen(Tail(p))

\* The blocks of p, each as a set: the partition p denotes, order forgotten.
BlockSets(p) == {elems(p[b]) : b \in 1..Len(p)}

\* p is a list of pairwise disjoint blocks whose union is the set S, no
\* element repeated.
Covers(p, S) ==
    /\ UNION BlockSets(p) = S
    /\ TotalLen(p) = Cardinality(S)
    /\ \A b, c \in 1..Len(p) : b # c => elems(p[b]) \cap elems(p[c]) = {}

NoEmptyBlock(p) == \A b \in 1..Len(p) : p[b] # <<>>

\* No two entries of the list ps denote the same partition.
PairwiseDistinct(ps) ==
    \A i, j \in 1..Len(ps) : i # j => BlockSets(ps[i]) # BlockSets(ps[j])

\* s is strictly ascending.
Ascending(s) == \A i, j \in 1..Len(s) : i < j => s[i] < s[j]

IndexFns == {"bipartition_indices", "directed_bipartition_indices",
             "directed_tripartition_indices"}

----------------------------------------------------------------------------
(* Properties *)

\* C1: for 1 <= k <= n, k_partitions(collection, k) yields exactly S(n, k)
\* results, no two of them the same partition, each made of exactly k
\* non-empty pairwise disjoint blocks whose union is the collection.
C1_KPartitionsAreTheStirlingMany ==
    (fn = "k_partitions" /\ 1 <= args.k /\ args.k <= Len(args.collection)) =>
        /\ raised = "none"
        /\ Len(result) = Stirling(Len(args.collection), args.k)
        /\ PairwiseDistinct(result)
        /\ \A r \in 1..Len(result) :
              /\ Len(result[r]) = args.k
              /\ NoEmptyBlock(result[r])
              /\ Covers(result[r], elems(args.collection))

\* A general case of C1: the seven 2-partitions of four elements.
C1_Witness ==
    /\ fn = "k_partitions"
    /\ Len(args.collection) = 4
    /\ args.k = 2
    /\ Len(result) = 7

\* C2: partitions(collection) yields each set partition of a non-empty
\* collection exactly once (Bell(n) results), nothing for an empty one, the
\* one-block partition first; with nontrivial=True it yields exactly the
\* partitions of at least two blocks.
C2_PartitionsAreTheBellMany ==
    fn = "partitions" =>
        LET n == Len(args.collection)
        IN /\ n = 0 => result = <<>>
           /\ PairwiseDistinct(result)
           /\ \A r \in 1..Len(result) :
                 NoEmptyBlock(result[r]) /\ Covers(result[r], elems(args.collection))
           /\ (n >= 1 /\ ~args.nontrivial) =>
                 Len(result) = Bell(n) /\ Len(result[1]) = 1
           /\ (n >= 1 /\ args.nontrivial) =>
                 /\ Len(result) = Bell(n) - 1
                 /\ \A r \in 1..Len(result) : Len(result[r]) >= 2

\* The non-trivial partitions of three elements: four of the five.
C2_Witness ==
    /\ fn = "partitions"
    /\ args.nontrivial
    /\ Len(args.collection) = 3
    /\ Len(result) = 4

\* C3: in every tuple returned by the three index enumerators, each index
\* of 0..N-1 is in exactly one part: the parts are pairwise disjoint and
\* their union is 0..N-1.
C3_IndexPartsPartitionTheIndexSet ==
    fn \in IndexFns =>
        \A e \in 1..Len(result) :
            /\ Len(result[e]) = (IF fn = "directed_tripartition_indices" THEN 3 ELSE 2)
            /\ Covers(result[e], 0..(args.N - 1))
            /\ \A i \in 0..(args.N - 1) :
                  Cardinality({p \in 1..Len(result[e]) : i \in elems(result[e][p])}) = 1

\* A tripartition of three indices with every part in use.
C3_Witness ==
    /\ fn = "directed_tripartition_indices"
    /\ args.N = 3
    /\ \E e \in 1..Len(result) : NoEmptyBlock(result[e])

\* C4: for N >= 1, entry i (i = 0 .. 2^(N-1) - 1) of bipartition_indices(N)
\* is (the ascending indices whose bit of i is 1, the ascending indices
\* whose bit of i is 0); so N-1 is always in the second part, no entry is
\* another one with its parts swapped, every unordered bipartition of 0..N-1
\* appears exactly once, and the result for N = 3 is the documented one.
C4_BipartitionIndicesByBits ==
    (fn = "bipartition_indices" /\ args.N >= 1) =>
        LET N == args.N
            Bit1(i) == {n \in 0..(N - 1) : (i \div 2 ^ n) % 2 = 1}
        IN /\ Len(result) = 2 ^ (N - 1)
           /\ \A i \in 0..(2 ^ (N - 1) - 1) :
                 /\ Ascending(result[i + 1][1]) /\ Ascending(result[i + 1][2])
                 /\ elems(result[i + 1][1]) = Bit1(i)
                 /\ elems(result[i + 1][2]) = (0..(N - 1)) \ Bit1(i)
                 /\ (N - 1) \in elems(result[i + 1][2])
           /\ \A i, j \in 1..Len(result) :
                 result[i] # << result[j][2], result[j][1] >>
           /\ \A A \in SUBSET (0..(N - 1)) :
                 Cardinality({i \in 1..Len(result) :
                                {elems(result[i][1]), elems(result[i][2])}
                                  = {A, (0..(N - 1)) \ A}}) = 1
           /\ N = 3 => result = << << <<>>, <<0, 1, 2>> >>, << <<0>>, <<1, 2>> >>,
                                   << <<1>>, <<0, 2>> >>, << <<0, 1>>, <<2>> >> >>

C4_Witness ==
    /\ fn = "bipartition_indices"
    /\ args.N = 3
    /\ Len(result) = 4

\* What C5 promises for N >= 1: 2^(N-1), 2^N and 3^N entries.
ExpectedCount(f, N) ==
    IF f = "bipartition_indices" THEN 2 ^ (N - 1)
    ELSE IF f = "directed_bipartition_indices" THEN 2 ^ N
    ELSE 3 ^ N

\* C5 as stated: for all N >= 0, N = 0 included, the three enumerators
\* return 2^max(N-1,0), 2^N and 3^N entries.
C5_CountsFromZero ==
    (fn \in IndexFns /\ args.N >= 0) =>
        Len(result) = (IF args.N = 0 THEN 1 ELSE ExpectedCount(fn, args.N))

\* C5 (amended): for N >= 1 the three enumerators return 2^(N-1), 2^N and
\* 3^N entries; for N = 0 each returns no entry at all.
C5_CountsFromOne ==
    (fn \in IndexFns /\ args.N >= 0) =>
        Len(result) = (IF args.N = 0 THEN 0 ELSE ExpectedCount(fn, args.N))

C5_Witness ==
    /\ fn = "directed_tripartition_indices"
    /\ args.N = 2
    /\ Len(result) = 9

\* C6: for N >= 1, directed_bipartition_indices(N) is the undirected list
\* followed by its swapped entries in reverse order: entry j and entry
\* 2^N-1-j are swaps of each other, every ordered pair (A, B) of disjoint
\* sets covering 0..N-1 occurs exactly once, only the first and the last
\* entry have an empty part; so DIRECTED_BI (directed_bipartition with
\* nontrivial=True) returns exactly the 2^N - 2 ordered bipartitions of the
\* sequence with two non-empty parts.
C6_DirectedBipartitions ==
    /\ (fn = "directed_bipartition_indices" /\ args.N >= 1) =>
          LET N == args.N
              All == 0..(N - 1)
          IN /\ Len(result) = 2 ^ N
             /\ SubSeq(result, 1, 2 ^ (N - 1)) = bipartition_indices(N)
             /\ \A j \in 0..(2 ^ N - 1) :
                   result[j + 1] = << result[2 ^ N - j][2], result[2 ^ N - j][1] >>
             /\ \A A \in SUBSET All :
                   Cardinality({e \in 1..Len(result) :
                                  /\ elems(result[e][1]) = A
                                  /\ elems(result[e][2]) = All \ A}) = 1
             /\ \A e \in 1..Len(result) :
                   (result[e][1] = <<>> \/ result[e][2] = <<>>)
                       <=> e \in {1, Len(result)}
    /\ (/\ \/ fn = "system_directed_bipartitions"
           \/ fn = "directed_bipartition" /\ args.nontrivial
        /\ Len(args.seq) >= 1) =>
          /\ Len(result) = 2 ^ Len(args.seq) - 2
          /\ \A e \in 1..Len(result) :
                /\ Len(result[e]) = 2
                /\ NoEmptyBlock(result[e])
                /\ Covers(result[e], elems(args.seq))
          /\ \A d, e \in 1..Len(result) :
                d # e => << elems(result[d][1]), elems(result[d][2]) >>
                           # << elems(result[e][1]), elems(result[e][2]) >>

\* The six directed cuts of a three-node system.
C6_Witness ==
    /\ fn = "system_directed_bipartitions"
    /\ Len(args.seq) = 3
    /\ Len(result) = 6

\* C7: for N <= 0 the three index enumerators return an empty list and
\* raise nothing; bipartition, directed_bipartition and
\* directed_tripartition of an empty sequence produce no result.
C7_NothingForNoElements ==
    /\ (fn \in IndexFns /\ args.N <= 0) => (result = <<>> /\ raised = "none")
    /\ (/\ fn \in {"bipartition", "directed_bipartition", "directed_tripartition"}
        /\ args.seq = <<>>) => (result = <<>> /\ raised = "none")

C7_Witness ==
    /\ fn = "directed_tripartition_indices"
    /\ args.N = 0
    /\ result = <<>>

\* C8: k_partitions yields nothing for an empty collection or k < 1; for a
\* non-empty collection and k = 1 exactly one partition, its single block
\* holding every element in input order; for k = n exactly one partition,
\* every element a singleton block.
C8_KPartitionsSpecialCases ==
    fn = "k_partitions" =>
        LET n == Len(args.collection)
        IN /\ (n = 0 \/ args.k < 1) => (result = <<>> /\ raised = "none")
           /\ (n >= 1 /\ args.k = 1) =>
                 /\ Len(result) = 1
                 /\ Len(result[1]) = 1
                 /\ result[1][1] = args.collection
           /\ (n >= 1 /\ args.k = n) =>
                 /\ Len(result) = 1
                 /\ Len(result[1]) = n
                 /\ \A i \in 1..n : result[1][i] = << args.collection[i] >>

C8_Witness ==
    /\ fn = "k_partitions"
    /\ Len(args.collection) = 3
    /\ args.k = 1
    /\ Len(result) = 1

\* C9: for a non-empty collection of size n and k > n, k_partitions raises
\* no error and yields no partition at all; in particular none with an
\* empty block.
C9_NothingBeyondTheSize ==
    (fn = "k_partitions" /\ Len(args.collection) >= 1
                         /\ args.k > Len(args.collection)) =>
        (raised = "none" /\ result = <<>>)

\* C10: combinations_with_nonempty_intersection_by_order returns the index
\* set c under key s iff |c| = s, the sets indexed by c have a common
\* element and max(2, min_size) <= s <= max_size (max_size = None standing
\* for n), whatever min_size and max_size are; no key has an empty value.
C10_ExactlyTheIntersectingCombinations ==
    fn = "combinations_with_nonempty_intersection_by_order" =>
        LET sets == args.sets
            n == Len(sets)
            lo == IF args.min_size > 2 THEN args.min_size ELSE 2
            hi == IF args.max_size = {} THEN n ELSE CHOOSE m \in args.max_size : TRUE
            Meet(c) == {x \in Universe : \A i \in c : x \in sets[i + 1]}
            Returned(s, c) == s \in DOMAIN result /\ c \in result[s]
        IN /\ \A s \in DOMAIN result : result[s] # {}
           /\ \A s \in DOMAIN result : \A c \in result[s] : c \subseteq 0..(n - 1)
           /\ \A s \in 0..(n + 1) : \A c \in SUBSET (0..(n - 1)) :
                 Returned(s, c) <=>
                     (Cardinality(c) = s /\ Meet(c) # {} /\ lo <= s /\ s <= hi)

----------------------------------------------------------------------------
(* combinatorics.py, step by step: combinations_with_nonempty_intersection *)
(* runs combinations_with_nonempty_intersection_by_order one loop pass at  *)
(* a time, returns the chained iterator over the dictionary's values, and  *)
(* the consumer then takes combinations from it.  While this call is in    *)
(* progress, result holds the locals of the call: the position (pc), k, i, *)
(* nonempty_intersection (working), intersections, combinations, the       *)
(* returned dictionary (implicit) and what the consumer took (taken).      *)

\* Most combinations a consumer takes before it stops.
MaxTake == 2

no_dict == [s \in {} |-> {}]

\* The inputs of the step-by-step call.  min_size 0 (the default) stands for
\* 1 and 2 as well, since min_size is max(2, min_size) from line 62 on.
LoopMinSizes == {0} \cup 3..MaxSets

LoopMaxSizes == {{}} \cup {{m} : m \in 1..MaxSets}

\* Lines 118-120 and 59-72: the call, up to the loop over k.
Loop_Begin ==
    /\ fn = "none"
    /\ \E sets \in Families, min_size \in LoopMinSizes, max_size \in LoopMaxSizes :
        LET st == by_order_initial(sets)
        IN /\ fn' = "combinations_with_nonempty_intersection"
           /\ args' = [sets |-> sets, min_size |-> min_size, max_size |-> max_size]
           /\ result' = [pc |-> "order", k |-> 2, i |-> 0, working |-> {},
                         intersections |-> st.intersections,
                         combinations |-> st.combinations,
                         implicit |-> no_dict, taken |-> {}]
           /\ raised' = "none"

\* Lines 75-77 and 92-93: the next k of range(2, max_size), or the loop's end.
Loop_Order ==
    /\ fn = "combinations_with_nonempty_intersection"
    /\ result.pc = "order"
    /\ IF result.k >= effective_max_size(args.sets, args.max_size)
       THEN result' = [result EXCEPT !.pc = "return"]
       ELSE LET combinations == touch(result.combinations, result.k)
            IN IF combinations[result.k] # {}
               THEN result' = [result EXCEPT !.pc = "index", !.i = 0,
                                             !.combinations = combinations,
                                             !.working = combinations[result.k]]
               ELSE result' = [result EXCEPT !.pc = "return",
                                             !.combinations = combinations]
    /\ UNCHANGED <<fn, args, raised>>

\* Lines 78-91: one pass of the loop over i, or its end.
Loop_Index ==
    /\ fn = "combinations_with_nonempty_intersection"
    /\ result.pc = "index"
    /\ IF result.i >= Len(args.sets)
       THEN result' = [result EXCEPT !.pc = "order", !.k = @ + 1]
       ELSE LET step == index_step(result.i, result.k, result.working, args.sets,
                                   [intersections |-> result.intersections,
                                    combinations |-> result.combinations])
            IN result' = [result EXCEPT
                            !.intersections = step.st.intersections,
                            !.combinations = step.st.combinations,
                            !.working = step.remaining,
                            !.i = IF step.remaining = {} THEN @ ELSE @ + 1,
                            !.k = IF step.remaining = {} THEN @ + 1 ELSE @,
                            !.pc = IF step.remaining = {} THEN "order" ELSE "index"]
    /\ UNCHANGED <<fn, args, raised>>

\* Lines 95-99 and 121: by_order returns its dictionary, and
\* combinations_with_nonempty_intersection the iterator chained over it.
Loop_Return ==
    /\ fn = "combinations_with_nonempty_intersection"
    /\ result.pc = "return"
    /\ result' = [result EXCEPT
                    !.pc = "iterating",
                    !.implicit = by_order_returned(result.combinations, args.min_size)]
    /\ UNCHANGED <<fn, args, raised>>

\* What chain.from_iterable(implicit.values()) can hand out next: the keys
\* were inserted in ascending order, so the sets are chained by ascending
\* size; within one set the order is the set's own.
next_candidates(implicit, taken) ==
    LET open == {s \in DOMAIN implicit : implicit[s] \ taken # {}}
    IN IF open = {} THEN {}
       ELSE implicit[CHOOSE s \in open : \A t \in open : s <= t] \ taken

\* The consumer takes one more combination from the iterator.
Loop_Take ==
    /\ fn = "combinations_with_nonempty_intersection"
    /\ result.pc = "iterating"
    /\ Cardinality(result.taken) < MaxTake
    /\ \E c \in next_candidates(result.implicit, result.taken) :
          result' = [result EXCEPT !.taken = @ \cup {c}]
    /\ UNCHANGED <<fn, args, raised>>

\* The consumer stops, early or at the end, and drops the iterator.
Loop_Drop ==
    /\ fn = "combinations_with_nonempty_intersection"
    /\ result.pc = "iterating"
    /\ fn' = "none"
    /\ args' = <<>>
    /\ result' = <<>>
    /\ raised' = "none"

LoopNext ==
    \/ Loop_Begin
    \/ Loop_Order
    \/ Loop_Index
    \/ Loop_Return
    \/ Loop_Take
    \/ Loop_Drop

LoopSpec == Init /\ [][LoopNext]_vars

\* The true intersection of the sets indexed by c.
Meet(sets, c) == {x \in Universe : \A i \in c : x \in sets[i + 1]}

InLoop == fn = "combinations_with_nonempty_intersection"

\* C11: throughout combinations_with_nonempty_intersection_by_order every
\* cached intersections[c] is the true intersection of the sets indexed by
\* c, and every combination registered under combinations[k] has k members
\* and a non-empty intersection; so no superset of a combination with empty
\* intersection is ever registered or returned, although the combinations
\* containing an index already processed are dropped from the working set.
C11_CacheIsTheTrueIntersection ==
    InLoop =>
        /\ \A c \in DOMAIN result.intersections :
              result.intersections[c] = Meet(args.sets, c)
        /\ \A k \in DOMAIN result.combinations : \A c \in result.combinations[k] :
              /\ Cardinality(c) = k
              /\ c \in DOMAIN result.intersections
              /\ \A d \in SUBSET c : Meet(args.sets, d) # {}
        /\ \A s \in DOMAIN result.implicit : \A c \in result.implicit[s] :
              \A d \in SUBSET c : Meet(args.sets, d) # {}
        /\ result.pc = "index" => result.working \subseteq result.combinations[result.k]

\* A triple has been registered from the pair that survived the pruning of
\* the pairs containing index 0.
C11_Witness ==
    /\ InLoop
    /\ result.pc = "index"
    /\ result.k = 2
    /\ result.i >= 1
    /\ result.working # result.combinations[2]
    /\ 3 \in DOMAIN result.combinations
    /\ result.combinations[3] # {}

\* Every combination stored in the dictionary the iterator runs over.
Stored == UNION {result.implicit[s] : s \in DOMAIN result.implicit}

Iterating == InLoop /\ result.pc = "iterating"

----------------------------------------------------------------------------
(* The mechanism/purview schemes *)

Pow2(n) == IF n <= 0 THEN 1 ELSE 2 ^ n

\* A Part empty on both axes.
DoublyEmpty(part) == part.mechanism = <<>> /\ part.purview = <<>>

\* No two of the partitions in a list consist of the same set of Parts.
DistinctPartSets(ps) ==
    Cardinality({parts_of(ps[e]) : e \in 1..Len(ps)}) = Len(ps)

\* The pairs (i, j), i-th numerator and j-th denominator, from which BI
\* keeps a bipartition: neither part is empty on both axes.
BIKept(numerators, denominators) ==
    {ij \in (1..Len(numerators)) \X (1..Len(denominators)) :
        /\ ~DoublyEmpty(Part(numerators[ij[1]][1], denominators[ij[2]][1]))
        /\ ~DoublyEmpty(Part(numerators[ij[1]][2], denominators[ij[2]][2]))}

\* Product order: the numerator first, then the denominator.
ProductBefore(a, b) == a[1] < b[1] \/ (a[1] = b[1] /\ a[2] < b[2])

\* C12: mip_bipartitions yields, in product order, exactly one Bipartition
\* (Part(n0, d0), Part(n1, d1)) for every pair (n, d) of a bipartition of the
\* mechanism and a directed bipartition of the purview in which neither part
\* is empty on both axes, and nothing else; for a mechanism of m >= 1 and a
\* purview of p >= 1 elements these are 2^(m+p-1) - 1 bipartitions, and no
\* two of them consist of the same set of Parts.
C12_BIIsTheFilteredProduct ==
    fn = "mip_bipartitions" =>
        LET numerators == bipartition(args.mechanism, FALSE)
            denominators == directed_bipartition(args.purview, FALSE)
            kept == BIKept(numerators, denominators)
            m == Len(args.mechanism)
            p == Len(args.purview)
        IN /\ Len(result) = Cardinality(kept)
           /\ \A e \in 1..Len(result) :
                \E ij \in kept :
                    /\ Cardinality({kl \in kept : ProductBefore(kl, ij)}) = e - 1
                    /\ result[e] = << Part(numerators[ij[1]][1], denominators[ij[2]][1]),
                                      Part(numerators[ij[1]][2], denominators[ij[2]][2]) >>
           /\ (m >= 1 /\ p >= 1) => Len(result) = Pow2(m + p - 1) - 1
           /\ DistinctPartSets(result)

\* mip_bipartitions((0,), (2, 3)) has yielded its three bipartitions.
C12_Witness ==
    /\ fn = "mip_bipartitions"
    /\ args.mechanism = << 0 >>
    /\ args.purview = << 2, 3 >>
    /\ Len(result) = 3

\* A tripartition is compressible when two of its parts, each non-empty on
\* some axis, have mechanism-subsets that are both empty or purview-subsets
\* that are both empty.
Compressible(t) ==
    \E i, j \in 1..Len(t) :
        /\ i < j
        /\ ~DoublyEmpty(t[i])
        /\ ~DoublyEmpty(t[j])
        /\ \/ t[i].mechanism = <<>> /\ t[j].mechanism = <<>>
           \/ t[i].purview = <<>> /\ t[j].purview = <<>>

\* The parts of a partition stand in canonical order.
Canonical(t) == \A i, j \in 1..Len(t) : i < j => ~part_less(t[j], t[i])

\* The three parts a factoring (n, d) stands for, before normalization.
RawTripart(f) ==
    << Part(f[1][1], f[2][1]), Part(f[1][2], f[2][2]), Part(<<>>, f[2][3]) >>

\* Everything wedge_partitions considers: product(numerators, denominators).
Factorings(mechanism, purview) ==
    product2(bipartition(mechanism, FALSE), directed_tripartition(purview))

\* C13: wedge_partitions never yields a compressible tripartition and never
\* two tripartitions with the same parts; every factoring that passes valid
\* and is not compressible is yielded exactly once, its parts in canonical
\* order, and nothing else is yielded.
C13_TRIYieldsTheIncompressibleOnce ==
    fn = "wedge_partitions" =>
        LET factorings == Factorings(args.mechanism, args.purview)
            good == {RawTripart(factorings[e]) : e \in
                        {d \in 1..Len(factorings) :
                            /\ valid(factorings[d])
                            /\ ~Compressible(RawTripart(factorings[d]))}}
            good_part_sets == {parts_of(t) : t \in good}
        IN /\ \A r \in 1..Len(result) :
                /\ ~Compressible(result[r])
                /\ Canonical(result[r])
                /\ Len(result[r]) = 3
                /\ parts_of(result[r]) \in good_part_sets
           /\ DistinctPartSets(result)
           /\ \A g \in good_part_sets :
                Cardinality({r \in 1..Len(result) : parts_of(result[r]) = g}) = 1

\* wedge_partitions has yielded tripartitions and has passed over a valid
\* factoring because it is compressible.
C13_Witness ==
    /\ fn = "wedge_partitions"
    /\ Len(result) >= 2
    /\ LET factorings == Factorings(args.mechanism, args.purview)
       IN \E e \in 1..Len(factorings) :
             valid(factorings[e]) /\ Compressible(RawTripart(factorings[e]))

\* The partitions a scheme has yielded.
YieldedPartitions == IF fn = "all_partitions" THEN result.out ELSE result

Schemes == {"mip_bipartitions", "wedge_partitions", "all_partitions"}

DoublyEmptyParts(t) == {i \in 1..Len(t) : DoublyEmpty(t[i])}

\* C14 as stated: no partition yielded by BI, TRI or ALL contains a Part
\* whose mechanism-subset and purview-subset are both empty.
C14_NoDoublyEmptyPart ==
    fn \in Schemes =>
        \A e \in 1..Len(YieldedPartitions) : DoublyEmptyParts(YieldedPartitions[e]) = {}

\* C14, amended: no bipartition yielded by BI contains a doubly empty Part,
\* and a partition yielded by TRI or ALL contains at most one.
C14_AtMostOneDoublyEmptyPart ==
    /\ fn = "mip_bipartitions" =>
           \A e \in 1..Len(result) : DoublyEmptyParts(result[e]) = {}
    /\ fn \in {"wedge_partitions", "all_partitions"} =>
           \A e \in 1..Len(YieldedPartitions) :
               Cardinality(DoublyEmptyParts(YieldedPartitions[e])) <= 1

\* wedge_partitions has yielded a tripartition with a doubly empty Part.
C14_Witness ==
    /\ fn = "wedge_partitions"
    /\ \E e \in 1..Len(result) : DoublyEmptyParts(result[e]) # {}

NonEmptyMechanisms(t) == {i \in 1..Len(t) : t[i].mechanism # <<>>}

NonEmptyPurviews(t) == {i \in 1..Len(t) : t[i].purview # <<>>}

\* C15: every tripartition yielded by wedge_partitions strictly splits the
\* mechanism: at least two of its parts have a non-empty mechanism-subset.
C15_MechanismStrictlySplit ==
    fn = "wedge_partitions" =>
        \A e \in 1..Len(result) : Cardinality(NonEmptyMechanisms(result[e])) >= 2

\* The first part holds the entire mechanism together with a non-empty
\* purview-subset.
FirstPartHoldsMechanism(parts) ==
    /\ Len(parts[1].mechanism) = Len(args.mechanism)
    /\ elems(parts[1].mechanism) = elems(args.mechanism)
    /\ parts[1].purview # <<>>

C17_PurviewBlocksWithinMechanismBlocks ==
    fn = "all_partitions" =>
        \A e \in 1..Len(result.out) :
            Cardinality(NonEmptyPurviews(result.out[e]))
                <= Cardinality(NonEmptyMechanisms(result.out[e]))

\* C17, amended: in every arrangement all_partitions builds, and so in every
\* partition it yields, the number of non-empty purview blocks is the number
\* of purview parts chosen, which is at most the number of mechanism parts
\* counting the appended empty block: the blocks of the mechanism partition
\* plus one.
C17_PurviewBlocksWithinMechanismParts ==
    fn = "all_partitions" =>
        /\ \A a \in 1..Len(result.tried) :
              LET t == result.tried[a]
              IN /\ t.n_purview_parts <= t.n_mechanism_parts
                 /\ Cardinality(NonEmptyPurviews(t.parts)) = t.n_purview_parts
                 /\ Cardinality(NonEmptyMechanisms(t.parts)) = t.n_mechanism_parts - 1
                 /\ Len(t.parts) = t.n_mechanism_parts
        /\ \A e \in 1..Len(result.out) :
              Cardinality(NonEmptyPurviews(result.out[e]))
                  <= Cardinality(NonEmptyMechanisms(result.out[e])) + 1

\* all_partitions has yielded a partition with one more non-empty purview
\* block than its mechanism partition has blocks.
C17_Witness ==
    /\ fn = "all_partitions"
    /\ \E e \in 1..Len(result.out) :
          Cardinality(NonEmptyPurviews(result.out[e]))
              = Cardinality(NonEmptyMechanisms(result.out[e])) + 1

\* The blocks are pairwise disjoint and their union is the whole.
SplitsInto(blocks, whole) ==
    /\ \A i, j \in 1..Len(blocks) :
          i < j => elems(blocks[i]) \cap elems(blocks[j]) = {}
    /\ \A i \in 1..Len(blocks) : Len(blocks[i]) = Cardinality(elems(blocks[i]))
    /\ UNION {elems(blocks[i]) : i \in 1..Len(blocks)} = elems(whole)

\* C18: every partition yielded by all_partitions has pairwise disjoint
\* mechanism-subsets whose union is the mechanism and pairwise disjoint
\* purview-subsets whose union is the purview, and no two yielded partitions
\* consist of the same set of Parts.
C18_ALLYieldsPartitionsOnce ==
    fn = "all_partitions" =>
        /\ \A e \in 1..Len(result.out) :
              LET t == result.out[e]
              IN /\ SplitsInto([i \in 1..Len(t) |-> t[i].mechanism], args.mechanism)
                 /\ SplitsInto([i \in 1..Len(t) |-> t[i].purview], args.purview)
        /\ DistinctPartSets(result.out)

\* all_partitions has yielded a partition in which two parts have the empty
\* purview-subset, so that exchanging them gives the same arrangement.
C18_Witness ==
    /\ fn = "all_partitions"
    /\ Len(result.out) >= 2
    /\ \E e \in 1..Len(result.out) :
          Cardinality({i \in 1..Len(result.out[e]) : result.out[e][i].purview = <<>>}) >= 2

----------------------------------------------------------------------------
(* The arrays of k_partitions *)

\* The call is one of the general case, 1 < k < n.
GeneralCase ==
    /\ fn = "_visit"
    /\ 1 < args.k
    /\ args.k < Len(args.collection)

\* The positions 1..n at which two arrays differ.
Differences(a, b, n) == {j \in 1..n : a[j] # b[j]}

\* C23: for 1 < k < n, two partitions yielded consecutively by k_partitions
\* differ by a minimal change: their arrays a[1..n] differ in exactly one
\* position, so that exactly one element moves from one block to another.
C23_ConsecutiveArraysDifferInOnePlace ==
    GeneralCase =>
        \A e \in 1..(Len(result) - 1) :
            Cardinality(Differences(result[e], result[e + 1], Len(args.collection))) = 1

\* k_partitions has gone through at least three arrays in the general case.
C23_Witness ==
    /\ GeneralCase
    /\ Len(result) >= 3

\* The largest of a[1..j].
RECURSIVE MaxUpTo(_, _)
MaxUpTo(a, j) ==
    IF j = 1 THEN a[1]
    ELSE IF a[j] > MaxUpTo(a, j - 1) THEN a[j] ELSE MaxUpTo(a, j - 1)

\* a[1..n] is a restricted growth string with exactly the k values 0..k-1.
RestrictedGrowth(a, n, k) ==
    /\ a[1] = 0
    /\ \A j \in 1..(n - 1) : a[j + 1] <= 1 + MaxUpTo(a, j)
    /\ \A j \in 1..n : a[j] \in 0..(k - 1)
    /\ {a[j] : j \in 1..n} = 0..(k - 1)

\* The position of an element in a sequence without repeats.
PositionIn(seq, x) == CHOOSE i \in 1..Len(seq) : seq[i] = x

\* C24: for 1 < k < n, at every visit made by k_partitions the array a is a
\* restricted growth string with exactly k values; hence the partition built
\* from it has no empty block and its blocks are ordered by the position of
\* their first element in the input.
C24_VisitedArraysAreRestrictedGrowthStrings ==
    GeneralCase =>
        \A e \in 1..Len(result) :
            LET n == Len(args.collection)
                ps == _visit(n, result[e], args.k, args.collection)
            IN /\ RestrictedGrowth(result[e], n, args.k)
               /\ Len(ps) = args.k
               /\ \A b \in 1..Len(ps) : ps[b] # <<>>
               /\ \A b, c \in 1..Len(ps) :
                     b < c => PositionIn(args.collection, ps[b][1])
                                < PositionIn(args.collection, ps[c][1])

\* k_partitions has visited an array whose second block starts beyond the
\* second element.
C24_Witness ==
    /\ GeneralCase
    /\ \E e \in 1..Len(result) : result[e][1] = 0 /\ result[e][2] = 0 /\ result[e][3] = 1

----------------------------------------------------------------------------
(* Bipartitions with one part of length 1 *)

\* The directed bipartitions of a sequence in which one part has length 1.
HasPartOfLengthOne(seq) ==
    {p \in elems(directed_bipartition(seq, FALSE)) : Len(p[1]) = 1 \/ Len(p[2]) = 1}

\* C25: for every sequence of N >= 1 distinct elements,
\* directed_bipartition_of_one yields each directed bipartition in which one
\* part has length 1 exactly once: 2N results, none of them twice.
C25_EachCutOfOneOnce ==
    (fn = "directed_bipartition_of_one" /\ Len(args.seq) >= 1) =>
        /\ Len(result) = 2 * Len(args.seq)
        /\ Cardinality(elems(result)) = Len(result)
        /\ elems(result) = HasPartOfLengthOne(args.seq)

----------------------------------------------------------------------------
(* The GENERAL scheme *)

\* A matrix over the cells (i, j), 0 <= i, j < n, is a cut matrix: 0/1
\* entries, zeros on the diagonal, a 1 somewhere off it.
IsCutMatrix(cm, n) ==
    /\ DOMAIN cm = (0..(n - 1)) \X (0..(n - 1))
    /\ \A ij \in DOMAIN cm : cm[ij] \in {0, 1}
    /\ \A i \in 0..(n - 1) : cm[<< i, i >>] = 0
    /\ \E ij \in DOMAIN cm : cm[ij] = 1

\* C26: for n >= 1 nodes the GENERAL scheme yields one CompleteGeneralKCut
\* first and then exactly one GeneralKCut for each n x n 0/1 matrix with an
\* all-zero diagonal and at least one off-diagonal 1: 2^(n*n - n) - 1 of
\* them, none for n = 1, no matrix twice.
C26_GeneralYieldsEveryCutMatrixOnce ==
    (fn = "general" /\ Len(args.node_indices) >= 1) =>
        LET n == Len(args.node_indices)
            matrices == {result[e].cut_matrix : e \in 2..Len(result)}
        IN /\ Len(result) >= 1
           /\ result[1] = CompleteGeneralKCut(args.node_indices)
           /\ \A e \in 2..Len(result) :
                 /\ result[e].class = "GeneralKCut"
                 /\ result[e].node_indices = args.node_indices
                 /\ IsCutMatrix(result[e].cut_matrix, n)
           /\ Cardinality(matrices) = Len(result) - 1
           /\ Len(result) - 1 = Pow2(n * n - n) - 1
           /\ n = 1 => Len(result) = 1

\* The GENERAL scheme has yielded the cuts of a system of two nodes or more.
C26_Witness ==
    /\ fn = "general"
    /\ Len(args.node_indices) >= 2
    /\ Len(result) >= 4

----------------------------------------------------------------------------
(* The number of processes *)

\* C30: get_num_processes raises ValueError when NUMBER_OF_CORES is 0, is
\* greater than cpu_count or is less than -cpu_count; it returns
\* NUMBER_OF_CORES when that is in 1..cpu_count, and cpu_count +
\* NUMBER_OF_CORES + 1 when it is in -cpu_count..-1; what it returns is in
\* 1..cpu_count.
C30_NumberOfProcesses ==
    fn = "get_num_processes" =>
        LET c == args.cpu_count
            N == args.NUMBER_OF_CORES
        IN /\ raised \in {"none", "ValueError"}
           /\ raised = "ValueError" <=> (N = 0 \/ N > c \/ N < -c)
           /\ raised = "none" => result \in 1..c
           /\ (1 <= N /\ N <= c) => (raised = "none" /\ result = N)
           /\ (-c <= N /\ N <= -1) => (raised = "none" /\ result = c + N + 1)

\* get_num_processes has returned all but one of the cores of a machine,
\* asked for by a negative number.
C30_Witness ==
    /\ fn = "get_num_processes"
    /\ args.cpu_count >= 2
    /\ args.NUMBER_OF_CORES = -2
    /\ raised = "none"
    /\ result = args.cpu_count - 1

----------------------------------------------------------------------------
(* The configured dispatch *)

\* The scheme name system_partitions goes by: the one passed, else the one
\* configured.
EffectiveScheme ==
    IF args.partition_scheme # {} THEN CHOOSE name \in args.partition_scheme : TRUE
    ELSE args.SYSTEM_PARTITION_TYPE

\* C21: mip_partitions and system_partitions called with a scheme name that
\* nothing is registered under fail at the call, with nothing produced and
\* no other scheme used instead; a registered name dispatches to exactly the
\* function registered under it.
C21_UnregisteredSchemeFailsFast ==
    /\ fn = "mip_partitions" =>
        /\ args.PARTITION_TYPE \notin {"BI", "TRI", "ALL"} =>
              (raised = "KeyError" /\ result.func = "none" /\ result.out = <<>>)
        /\ args.PARTITION_TYPE = "BI" =>
              /\ raised = "none" /\ result.func = "mip_bipartitions"
              /\ result.out = mip_bipartitions(args.mechanism, args.purview)
        /\ args.PARTITION_TYPE = "TRI" =>
              /\ raised = "none" /\ result.func = "wedge_partitions"
              /\ result.out = wedge_partitions(args.mechanism, args.purview)
        /\ args.PARTITION_TYPE = "ALL" =>
              /\ raised = "none" /\ result.func = "all_partitions"
              /\ result.out = all_partitions(args.mechanism, args.purview)
    /\ fn = "system_partitions" =>
        /\ EffectiveScheme \notin {"DIRECTED_BI", "DIRECTED_BI_CUT_ONE",
                                    "DIRECTED_BI_SIMPLE", "TEMPORAL_DIRECTED_BI",
                                    "TEMPORAL_DIRECTED_BI_CUT_ONE", "GENERAL"} =>
              (raised = "KeyError" /\ result.func = "none" /\ result.out = <<>>)
        /\ EffectiveScheme = "DIRECTED_BI" =>
              (raised = "none" /\ result.func = "system_directed_bipartitions")
        /\ EffectiveScheme = "DIRECTED_BI_CUT_ONE" =>
              (raised = "none" /\ result.func = "system_directed_bipartitions_cut_one")
        /\ EffectiveScheme = "DIRECTED_BI_SIMPLE" =>
              (raised = "none" /\ result.func = "system_bipartitions_simple")
        /\ EffectiveScheme = "TEMPORAL_DIRECTED_BI" =>
              (raised = "none" /\ result.func = "system_temporal_directed_bipartitions")
        /\ EffectiveScheme = "TEMPORAL_DIRECTED_BI_CUT_ONE" =>
              (raised = "none"
                 /\ result.func = "system_temporal_directed_bipartitions_cut_one")
        /\ EffectiveScheme = "GENERAL" =>
              (raised = "none" /\ result.func = "general")
        /\ (raised = "none" /\ args.filter_func = {})
              => result.out = call_system_partition_type(result.func, args.nodes)

\* mip_partitions has failed on an unregistered name for a mechanism and a
\* purview that every registered scheme has partitions for.
C21_Witness ==
    /\ fn = "mip_partitions"
    /\ args.PARTITION_TYPE = "NONE"
    /\ Len(args.mechanism) >= 2
    /\ Len(args.purview) >= 2
    /\ raised = "KeyError"

----------------------------------------------------------------------------
(* compute/parallel.py: MapReduce.  A subclass supplies compute and        *)
(* process_result; the subclasses tried here are a family: compute hands   *)
(* back its object (0 for the object None), or None for the objects in     *)
(* none_for, and process_result counts the results it is given and sets    *)
(* done on a result in stop_on.  While run_parallel or run_sequential is   *)
(* in progress, result holds the fields of the engine (done,               *)
(* number_of_processes, in_queue, out_queue, processes), the locals of the *)
(* running method (pc, result, index), the value it returned, and a        *)
(* history of what happened: the objects computed, the calls of            *)
(* process_result, the items on which workers left their loop and the      *)
(* items the collector counted as pills.                                   *)

\* Most worker processes (cpu_count), and most objects in the iterable.
MaxProcesses == 2

MaxObjects == 2

\* Line 40.
POISON_PILL == None

\* The objects an iterable may hold, and the results compute may give.
Objects == {None, Some(1), Some(2)}

Results == {None, Some(0), Some(1), Some(2)}

Iterables == UNION {[1..n -> Objects] : n \in 0..MaxObjects}

\* The subclasses: compute returns None for the objects in none_for, and
\* process_result sets done on the results in stop_on.
NoneFors == SUBSET {Some(1)}

StopOns == SUBSET {Some(2)}

\* Lines 119-121, as overridden by the subclass.
compute(obj, none_for) ==
    IF obj \in none_for THEN None
    ELSE IF obj = None THEN Some(0)
    ELSE obj

\* Lines 115-117, as overridden: nothing counted yet.
empty_result == [r \in Results |-> 0]

\* Lines 123-133, as overridden: the collated result, and whether this call
\* sets self.done to True.
process_result(new_result, old_result, stop_on) ==
    [result |-> [old_result EXCEPT ![new_result] = @ + 1],
     done |-> new_result \in stop_on]

\* An item of in_queue: the object, and its position in the iterable (0 for
\* a pill of init_parallel).  The code sees obj only.
in_item(obj, pos) == [obj |-> obj, pos |-> pos]

\* An item of out_queue: the value, and the position of the object it was
\* computed from (0 for the pill a leaving worker puts).  The code sees val
\* only.
out_item(val, pos) == [val |-> val, pos |-> pos]

init_parallel_no_pills(iterable, number_of_processes) ==
    [in_queue |-> [i \in 1..Len(iterable) |-> in_item(iterable[i], i)],
     out_queue |-> [w \in 1..number_of_processes |-> <<>>],
     processes |-> [w \in 1..number_of_processes |-> [pc |-> "new", item |-> in_item(None, 0)]]]

\* Lines 145-164: every object, then one pill per process.  A
\* multiprocessing.Queue keeps the order of the items one process puts and
\* none between processes: out_queue holds, per worker, what it has put and
\* the collector has not yet got.
init_parallel(iterable, number_of_processes) ==
    [in_queue |-> [i \in 1..Len(iterable) |-> in_item(iterable[i], i)]
                    \o [i \in 1..number_of_processes |-> in_item(POISON_PILL, 0)],
     out_queue |-> [w \in 1..number_of_processes |-> <<>>],
     processes |-> [w \in 1..number_of_processes |-> [pc |-> "new", item |-> in_item(None, 0)]]]

\* Lines 166-171: every process starts at the head of the worker's loop.
start_parallel(processes) ==
    [w \in DOMAIN processes |-> [processes[w] EXCEPT !.pc = "get"]]

\* Lines 173-176: every process is terminated.
finish_parallel(processes) ==
    [w \in DOMAIN processes |-> [processes[w] EXCEPT !.pc = "terminated"]]

\* Lines 138-141 and 143: in_queue.get(); on a pill the worker breaks, puts
\* its own pill and ends; otherwise it holds the object to compute.
worker_get(st, w) ==
    LET item == Head(st.in_queue)
    IN IF item.obj = POISON_PILL
       THEN [st EXCEPT !.in_queue = Tail(@),
                       !.processes[w] = [pc |-> "exited", item |-> item],
                       !.out_queue[w] = Append(@, out_item(POISON_PILL, 0)),
                       !.left = @ \cup {[by |-> w, pos |-> item.pos]}]
       ELSE [st EXCEPT !.in_queue = Tail(@),
                       !.processes[w] = [pc |-> "compute", item |-> item]]

\* Line 142: out_queue.put(self.compute(obj, *context)).
worker_put(st, w, none_for) ==
    LET item == st.processes[w].item
    IN [st EXCEPT !.out_queue[w] = Append(@, out_item(compute(item.obj, none_for), item.pos)),
                  !.processes[w].pc = "get",
                  !.computed = @ \cup {[by |-> w, pos |-> item.pos]}]

run_parallel_while_forever(done) == TRUE

\* Line 195: while not self.done.
run_parallel_while(done) == ~done

run_parallel_pass_first_pill(st, w, stop_on) ==
    LET r == Head(st.out_queue[w])
        got == [st EXCEPT !.out_queue[w] = Tail(@)]
    IN IF r.val = POISON_PILL
       THEN [got EXCEPT !.number_of_processes = @ - 1,
                        !.pc = "finish",
                        !.counted = Append(@, r)]
       ELSE LET pr == process_result(r.val, st.result, stop_on)
            IN [got EXCEPT !.result = pr.result,
                           !.done = @ \/ pr.done,
                           !.calls = Append(@, [new_result |-> r.val, pos |-> r.pos,
                                                returned |-> pr.result, done |-> pr.done])]

\* Lines 196-203: one pass of the collector's loop on the item r it got from
\* worker w.
run_parallel_pass(st, w, stop_on) ==
    LET r == Head(st.out_queue[w])
        got == [st EXCEPT !.out_queue[w] = Tail(@)]
    IN IF r.val = POISON_PILL
       THEN [got EXCEPT !.number_of_processes = @ - 1,
                        !.pc = IF st.number_of_processes - 1 = 0 THEN "finish" ELSE "while",
                        !.counted = Append(@, r)]
       ELSE LET pr == process_result(r.val, st.result, stop_on)
            IN [got EXCEPT !.result = pr.result,
                           !.done = @ \/ pr.done,
                           !.calls = Append(@, [new_result |-> r.val, pos |-> r.pos,
                                                returned |-> pr.result, done |-> pr.done])]

\* Lines 216-223: one pass of the loop of run_sequential, by the main
\* process (worker 0).
run_sequential_pass(st, iterable, none_for, stop_on) ==
    LET obj == iterable[st.index + 1]
        r == compute(obj, none_for)
        pr == process_result(r, st.result, stop_on)
        done == st.done \/ pr.done
    IN [st EXCEPT !.result = pr.result,
                  !.done = done,
                  !.index = @ + 1,
                  !.pc = IF done \/ st.index + 1 = Len(iterable) THEN "close" ELSE "for",
                  !.computed = @ \cup {[by |-> 0, pos |-> st.index + 1]},
                  !.calls = Append(@, [new_result |-> r, pos |-> st.index + 1,
                                       returned |-> pr.result, done |-> pr.done])]

\* Lines 213-214 and, for run_parallel, 192-193: the engine before the loop.
engine_initial(pc) ==
    [pc |-> pc, done |-> FALSE, result |-> empty_result, index |-> 0,
     number_of_processes |-> 0, in_queue |-> <<>>, out_queue |-> <<>>,
     processes |-> <<>>, returned |-> empty_result,
     computed |-> {}, calls |-> <<>>, left |-> {}, counted |-> <<>>]

RECURSIVE run_sequential_from(_, _, _, _)
run_sequential_from(st, iterable, none_for, stop_on) ==
    IF st.pc = "for"
    THEN run_sequential_from(run_sequential_pass(st, iterable, none_for, stop_on),
                             iterable, none_for, stop_on)
    ELSE st

\* Lines 209-228: run_sequential, from its first line to its return.
run_sequential(iterable, none_for, stop_on) ==
    run_sequential_from(
        engine_initial(IF Len(iterable) = 0 THEN "close" ELSE "for"),
        iterable, none_for, stop_on).result

\* Lines 230-232 and 185-193: run(parallel=True) up to the collector's loop;
\* get_num_processes may raise.
Run_Parallel_Begin ==
    /\ fn = "none"
    /\ \E iterable \in Iterables, none_for \in NoneFors, stop_on \in StopOns,
          NUMBER_OF_CORES \in 0..MaxProcesses :
        LET num == get_num_processes(MaxProcesses, NUMBER_OF_CORES)
        IN /\ fn' = "run_parallel"
           /\ args' = [iterable |-> iterable, none_for |-> none_for, stop_on |-> stop_on,
                       NUMBER_OF_CORES |-> NUMBER_OF_CORES]
           /\ raised' = num.err
           /\ IF num.err # "none"
              THEN result' = engine_initial("raised")
              ELSE LET engine == init_parallel(iterable, num.num)
                   IN result' = [engine_initial("while") EXCEPT
                                    !.number_of_processes = num.num,
                                    !.in_queue = engine.in_queue,
                                    !.out_queue = engine.out_queue,
                                    !.processes = start_parallel(engine.processes)]

\* A worker at in_queue.get() with an item to get.
Worker_Get(w) ==
    /\ fn = "run_parallel"
    /\ w \in DOMAIN result.processes
    /\ result.processes[w].pc = "get"
    /\ result.in_queue # <<>>
    /\ result' = worker_get(result, w)
    /\ UNCHANGED <<fn, args, raised>>

\* A worker computes the object it holds and puts the result.
Worker_Put(w) ==
    /\ fn = "run_parallel"
    /\ w \in DOMAIN result.processes
    /\ result.processes[w].pc = "compute"
    /\ result' = worker_put(result, w, args.none_for)
    /\ UNCHANGED <<fn, args, raised>>

\* The collector at out_queue.get() with an item to get.
Run_Parallel_Collect ==
    /\ fn = "run_parallel"
    /\ result.pc = "while"
    /\ run_parallel_while(result.done)
    /\ \E w \in DOMAIN result.out_queue :
          /\ result.out_queue[w] # <<>>
          /\ result' = run_parallel_pass(result, w, args.stop_on)
    /\ UNCHANGED <<fn, args, raised>>

\* Lines 195 and 205-207: the loop ends, by its condition or by the break;
\* finish_parallel, and the return.
Run_Parallel_Finish ==
    /\ fn = "run_parallel"
    /\ \/ result.pc = "while" /\ ~run_parallel_while(result.done)
       \/ result.pc = "finish"
    /\ result' = [result EXCEPT !.pc = "returned",
                                !.processes = finish_parallel(@),
                                !.returned = result.result]
    /\ UNCHANGED <<fn, args, raised>>

\* Lines 230-234 and 209-214: run(parallel=False) up to the loop.
Run_Sequential_Begin ==
    /\ fn = "none"
    /\ \E iterable \in Iterables, none_for \in NoneFors, stop_on \in StopOns :
        /\ fn' = "run_sequential"
        /\ args' = [iterable |-> iterable, none_for |-> none_for, stop_on |-> stop_on]
        /\ result' = engine_initial(IF Len(iterable) = 0 THEN "close" ELSE "for")
        /\ raised' = "none"

\* One pass of the loop of run_sequential.
Run_Sequential_Pass ==
    /\ fn = "run_sequential"
    /\ result.pc = "for"
    /\ result' = run_sequential_pass(result, args.iterable, args.none_for, args.stop_on)
    /\ UNCHANGED <<fn, args, raised>>

\* Lines 225-228: the progress bar is closed and the result returned.
Run_Sequential_Return ==
    /\ fn = "run_sequential"
    /\ result.pc = "close"
    /\ result' = [result EXCEPT !.pc = "returned", !.returned = result.result]
    /\ UNCHANGED <<fn, args, raised>>

\* The caller has the value, or the exception, of run.
MapReduce_Drop ==
    /\ fn \in {"run_parallel", "run_sequential"}
    /\ result.pc \in {"returned", "raised"}
    /\ fn' = "none"
    /\ args' = <<>>
    /\ result' = <<>>
    /\ raised' = "none"

MapReduceNext ==
    \/ Run_Parallel_Begin
    \/ \E w \in 1..MaxProcesses : Worker_Get(w)
    \/ \E w \in 1..MaxProcesses : Worker_Put(w)
    \/ Run_Parallel_Collect
    \/ Run_Parallel_Finish
    \/ Run_Sequential_Begin
    \/ Run_Sequential_Pass
    \/ Run_Sequential_Return
    \/ MapReduce_Drop

MapReduceSpec == Init /\ [][MapReduceNext]_vars

\* The operating system runs every process that can take a step: each
\* worker, and the main process in its loop and after it.
MapReduceFairness ==
    /\ \A w \in 1..MaxProcesses : WF_vars(Worker_Get(w)) /\ WF_vars(Worker_Put(w))
    /\ WF_vars(Run_Parallel_Collect)
    /\ WF_vars(Run_Parallel_Finish)

FairMapReduceSpec == Init /\ [][MapReduceNext]_vars /\ MapReduceFairness

\* How many calls of process_result were given the result of the object at
\* position pos, and how many workers computed that object.
CallsOf(pos) == Cardinality({i \in DOMAIN result.calls : result.calls[i].pos = pos})

ComputedBy(pos) == {e.by : e \in {c \in result.computed : c.pos = pos}}

\* A call of process_result has set done.
DoneWasSet == \E i \in DOMAIN result.calls : result.calls[i].done

Running == fn \in {"run_parallel", "run_sequential"}

Returned(method) == fn = method /\ result.pc = "returned"

\* C22: in run_sequential and in run_parallel alike, the call of
\* process_result that sets self.done to True is the last call of
\* process_result, and the value run returns is the value that call returned.
C22_ShortCircuit ==
    Running =>
        /\ \A i \in DOMAIN result.calls :
              result.calls[i].done => i = Len(result.calls)
        /\ (result.pc = "returned" /\ DoneWasSet) =>
              result.returned = result.calls[Len(result.calls)].returned

\* run_parallel has returned on done while a computed result was still in
\* the output queue.
C22_Witness ==
    /\ Returned("run_parallel")
    /\ DoneWasSet
    /\ \E w \in DOMAIN result.out_queue : \E i \in DOMAIN result.out_queue[w] :
          result.out_queue[w][i].val # POISON_PILL

\* Neither an object of the iterable nor a result of compute is the sentinel.
NoSentinelData ==
    \A i \in DOMAIN args.iterable :
        /\ args.iterable[i] # POISON_PILL
        /\ compute(args.iterable[i], args.none_for) # POISON_PILL

\* C27: when run_parallel returns without done having been set, objects and
\* results all differing from the sentinel, every object of the iterable has
\* been computed by exactly one worker, process_result has been called
\* exactly once with each result and with nothing else, and the collector
\* has counted one pill per worker; in the output queue a worker's pill
\* follows all of its results.
C27_EveryObjectOnce ==
    (fn = "run_parallel" /\ raised = "none" /\ NoSentinelData) =>
        /\ \A w \in DOMAIN result.out_queue : \A i \in DOMAIN result.out_queue[w] :
              result.out_queue[w][i].val = POISON_PILL => i = Len(result.out_queue[w])
        /\ (result.pc = "returned" /\ ~DoneWasSet) =>
              /\ \A pos \in DOMAIN args.iterable :
                    /\ Cardinality(ComputedBy(pos)) = 1
                    /\ CallsOf(pos) = 1
                    /\ \A i \in DOMAIN result.calls :
                          result.calls[i].pos = pos =>
                              result.calls[i].new_result
                                  = compute(args.iterable[pos], args.none_for)
              /\ Len(result.calls) = Len(args.iterable)
              /\ Len(result.counted) = Len(result.processes)

\* run_parallel has returned, done never set, after two workers computed an
\* object each.
C27_Witness ==
    /\ Returned("run_parallel")
    /\ NoSentinelData
    /\ ~DoneWasSet
    /\ Len(args.iterable) >= 2
    /\ \E c, d \in result.computed : c.by # d.by

C29_PillNeverConfusedWithData ==
    fn = "run_parallel" =>
        /\ \A l \in result.left : l.pos = 0
        /\ \A i \in DOMAIN result.counted : result.counted[i].pos = 0
        /\ (result.pc = "returned" /\ args.stop_on = {}) =>
              result.returned = run_sequential(args.iterable, args.none_for, args.stop_on)

====
